---- MODULE Spec2Model ----
(***************************************************************************)
(* Model of the SOC training simulator's content synthesis engine          *)
(* (backend/services/scenario_generator_service.py, routes/scenarios.py)   *)
(* and of its enrichment simulator with its cache                          *)
(* (backend/services/investigation_tools_service.py).                      *)
(*                                                                         *)
(* Times are minutes.  Python's None is modelled per field by a value of   *)
(* the field's own type (0 for an absent id or port, "" for an absent      *)
(* string); a dict is a record and d.get(k, default) is Get(d, k, default).*)
(* The outcomes of random.* and uuid.uuid4() are inputs of the operators.  *)
(***************************************************************************)
EXTENDS Integers, Sequences, FiniteSets, TLC

VARIABLES
    now,        \* the clock, datetime.utcnow() / NOW()
    scenario,   \* the Scenario the caller holds (id 0: none yet)
    artifacts,  \* the list generate_artifacts returned last
    timeline,   \* the list generate_timeline returned last
    response,   \* the last answer of the generate-scenario route
    store,      \* the scenario tables of the persistence collaborator
    last,       \* the operation that ran last
    save_call,  \* the last call of save_scenario_to_db: what it met and returned
    enriched_data_cache,  \* the rows of the cache table
    investigation_db,     \* InvestigationToolsService.db is set
    process_hash,         \* hash(focus.value) in the running process
    focus,                \* the query [tool, value] the callers make
    call,                 \* the lookup that completed last
    lastWrite,            \* what the last write the store took handed to it
    pc,                   \* where each concurrent caller is in its lookup
    answer,               \* what each concurrent caller got
    raced,                \* a caller checked the cache while another was between check and write
    abuseipdb_cache,      \* the rows of table abuseipdb_cache
    reply                 \* the last call of CacheService or of the AbuseIPDB routes

genVars == <<scenario, artifacts, timeline, response, store, last, save_call>>
raceVars == <<pc, answer, raced>>
enrichVars == <<enriched_data_cache, investigation_db, process_hash, focus, call, lastWrite>>
abuseVars == <<abuseipdb_cache, reply>>
vars == <<now, genVars, enrichVars, raceVars, abuseVars>>

----------------------------------------------------------------------------
(* Bounds of the model *)

\* how many leading draws of the additional artifacts vary freely (the rest repeat one draw)
MaxVariedArtifacts == 1
\* how many leading draws of the noise events vary freely (the rest repeat one draw)
MaxVariedNoise == 1
\* size of the pool uuid.uuid4() draws from
UuidSpace == 40
\* how many times the clock moves on, by half a cache duration each time
MaxTicks == 3
\* how many sampled outcomes the random draws of one enrichment call have
RandSamples == 2

----------------------------------------------------------------------------
(* Constants of backend/models/scenario.py *)

BEGINNER == "beginner"
INTERMEDIATE == "intermediate"
ADVANCED == "advanced"

\* ScenarioTimelineEvent.source_port of an event built without one (None)
NonePort == 0

Get(d, k, default) == IF k \in DOMAIN d THEN d[k] ELSE default

\* str(uuid): the text form of an id, a different value from the id itself
UuidStr(u) == <<"uuid", u>>

ScenarioArtifact(id, scenario_id, type, value, is_malicious, is_critical, metadata, points, created_at) ==
    [id |-> id, scenario_id |-> scenario_id, type |-> type, value |-> value,
     is_malicious |-> is_malicious, is_critical |-> is_critical,
     metadata |-> metadata, points |-> points, created_at |-> created_at]

ScenarioTimelineEvent(id, scenario_id, timestamp, event_type, description, source_ip, destination_ip, source_port, destination_port, artifact_ids, priority, raw_log, created_at) ==
    [id |-> id, scenario_id |-> scenario_id, timestamp |-> timestamp,
     event_type |-> event_type, description |-> description, source_ip |-> source_ip,
     destination_ip |-> destination_ip, source_port |-> source_port,
     destination_port |-> destination_port, artifact_ids |-> artifact_ids,
     priority |-> priority, raw_log |-> raw_log, created_at |-> created_at]

----------------------------------------------------------------------------
(* Class tables of ScenarioGeneratorService *)

MALICIOUS_IPS ==
    <<"185.220.101.42", "91.219.236.166", "45.227.254.12", "103.35.74.21",
      "212.83.178.156", "185.234.72.14", "89.248.168.212", "195.154.60.193",
      "91.207.174.23", "45.154.255.147">>

BENIGN_IPS == <<"8.8.8.8", "1.1.1.1", "208.67.222.222", "10.0.0.1", "192.168.1.1">>

MALICIOUS_DOMAINS ==
    <<"malware-c2.badssl.com", "phishing-test.example.com", "brute-force.badssl.com",
      "scanner.badssl.com", "exfil-test.evil.com", "apt-c2.secure-apt.net">>

TARGET_IPS == <<"10.0.0.5", "10.0.0.10", "10.0.0.15", "192.168.1.100", "172.16.0.50">>

Range(s) == {s[i] : i \in DOMAIN s}

----------------------------------------------------------------------------------------------------------------------------------------
(* The templates the TemplateStore supplies: the rows of scenario_templates *)
(* and the ScenarioTemplate _row_to_template loads from each.  A list      *)
(* column holds a list, written List(l), or NULL (None), or is missing     *)
(* from the row.  Descriptors may omit fields.                              *)

None == [none |-> TRUE]
List(l) == [list |-> l]

scenario_templates ==
    << [id |-> 101, name |-> "Port scan", incident_type |-> "port_scanning",
        description |-> "scan", default_difficulty |-> BEGINNER,
        estimated_duration |-> 0, is_active |-> TRUE,
        base_artifacts |-> List(
            << [type |-> "ip", value |-> "185.220.101.42", is_malicious |-> TRUE,
                is_critical |-> TRUE, points |-> 25] >>),
        base_timeline |-> List(
            << [event_type |-> "network_scan", description |-> "SYN scan", priority |-> 1],
               [event_type |-> "connection_attempt", description |-> "SSH", priority |-> 3],
               [event_type |-> "authentication_failure", description |-> "failed login"] >>)],
       [id |-> 102, name |-> "C2", incident_type |-> "c2_communication",
        description |-> "beacon", default_difficulty |-> ADVANCED,
        estimated_duration |-> 50, is_active |-> TRUE,
        base_artifacts |-> List(
            << [type |-> "domain", value |-> "malware-c2.badssl.com", is_malicious |-> TRUE],
               [value |-> "8.8.8.8"],
               [type |-> "file_hash", is_critical |-> TRUE] >>),
        base_timeline |-> List(
            << [event_type |-> "c2_beacon", description |-> "beacon", priority |-> 2],
               [description |-> "unlabelled", priority |-> 3] >>)],
       [id |-> 103, name |-> "Empty", incident_type |-> "apt_activity",
        description |-> "", default_difficulty |-> INTERMEDIATE,
        estimated_duration |-> 0, is_active |-> TRUE],
       [id |-> 104, name |-> "No timeline", incident_type |-> "brute_force",
        description |-> "", default_difficulty |-> INTERMEDIATE,
        estimated_duration |-> 0, is_active |-> TRUE,
        base_artifacts |-> List(
            << [type |-> "ip", value |-> "91.219.236.166", is_malicious |-> TRUE] >>),
        base_timeline |-> None],
       [id |-> 105, name |-> "No artifacts", incident_type |-> "data_exfiltration",
        description |-> "", default_difficulty |-> BEGINNER,
        estimated_duration |-> 0, is_active |-> TRUE,
        base_artifacts |-> None,
        base_timeline |-> List(
            << [event_type |-> "data_exfiltration", description |-> "upload"] >>)] >>

\* The ScenarioTemplate of a row.  row.get(name, []) is the column, or [] for
\* a missing one; a column that is NULL stays None.  A list field that is
\* None is named in none_fields and holds the empty list, since every list
\* field is a sequence here.
_row_to_template(row) ==
    LET get(name) == Get(row, name, List(<< >>))
        list(column) == IF column = None THEN << >> ELSE column.list
    IN  [id |-> row.id, name |-> row.name, incident_type |-> row.incident_type,
         description |-> row.description,
         base_timeline |-> list(get("base_timeline")),
         base_artifacts |-> list(get("base_artifacts")),
         none_fields |-> {name \in {"base_timeline", "base_artifacts"} : get(name) = None},
         default_difficulty |-> Get(row, "default_difficulty", "beginner"),
         estimated_duration |-> Get(row, "estimated_duration", 0),
         is_active |-> Get(row, "is_active", TRUE)]

Templates == [i \in DOMAIN scenario_templates |-> _row_to_template(scenario_templates[i])]

\* "for x in template.<field>" and "enumerate(template.<field>)" raise
\* TypeError when the field is None
IterationRaises(template, field) == field \in template.none_fields

----------------
(* generate_scenario: the Scenario record (title, description and learning  *)
(* objectives are fixed texts per incident type and are left out)           *)

_estimate_duration(difficulty) ==
    CASE difficulty = BEGINNER -> 30
      [] difficulty = INTERMEDIATE -> 45
      [] difficulty = ADVANCED -> 60
      [] OTHER -> 30

\* difficulty "" stands for the argument left at its default None
generate_scenario(uuid, template, difficulty) ==
    LET d == IF difficulty = "" THEN template.default_difficulty ELSE difficulty
    IN  [id |-> uuid,
         difficulty |-> d,
         estimated_duration |->
             IF template.estimated_duration # 0 THEN template.estimated_duration
             ELSE _estimate_duration(d),
         incident_type |-> template.incident_type,
         template_id |-> template.id]

----------------------------------------------------------------------------
(* generate_artifacts *)

\* the table keyed by easy, medium, hard (the names generate_scenario's
\* docstring uses), so that every difficulty falls to the default
_get_artifact_count_EasyMediumHard(difficulty) ==
    CASE difficulty = "easy" -> 3
      [] difficulty = "medium" -> 5
      [] difficulty = "hard" -> 10
      [] OTHER -> 3

_get_artifact_count_by_difficulty(difficulty) ==
    CASE difficulty = BEGINNER -> 3
      [] difficulty = INTERMEDIATE -> 5
      [] difficulty = ADVANCED -> 10
      [] OTHER -> 3

\* random.random() < 0.5 picks the malicious-IP pool, else the domain pool
_generate_artifact_value(draw) ==
    IF draw.value_is_ip THEN MALICIOUS_IPS[draw.ip_index]
    ELSE MALICIOUS_DOMAINS[draw.domain_index]

\* one pass of the loop over range(num_additional); draw holds the outcomes of
\* its random calls
AdditionalArtifact(uuid, scenario_id, draw, created_at) ==
    IF draw.benign
    THEN ScenarioArtifact(uuid, scenario_id, "ip", BENIGN_IPS[draw.benign_index],
                          FALSE, FALSE, [type |-> "benign"], 5, created_at)
    ELSE ScenarioArtifact(uuid, scenario_id, draw.type, _generate_artifact_value(draw),
                          TRUE, draw.critical, [type |-> "malicious"], draw.points,
                          created_at)

BaseArtifact(uuid, scenario_id, base_artifact, created_at) ==
    ScenarioArtifact(uuid, scenario_id,
                     Get(base_artifact, "type", "ip"),
                     Get(base_artifact, "value", ""),
                     Get(base_artifact, "is_malicious", FALSE),
                     Get(base_artifact, "is_critical", FALSE),
                     Get(base_artifact, "metadata", << >>),
                     Get(base_artifact, "points", 10),
                     created_at)

\* uuids: the outcomes of uuid.uuid4(), in call order; draws: one per additional artifact
generate_artifacts(scenario_id, template, difficulty, uuids, draws, created_at) ==
    LET base == template.base_artifacts
        nb == Len(base)
        num_additional == _get_artifact_count_by_difficulty(difficulty)
    IN  [i \in 1..nb |-> BaseArtifact(uuids[i], scenario_id, base[i], created_at)]
        \o [j \in 1..num_additional |->
                AdditionalArtifact(uuids[nb + j], scenario_id, draws[j], created_at)]

\* the outcomes of one additional artifact's random calls that the model draws from
ArtifactDrawSample ==
    { [benign |-> TRUE, benign_index |-> 1, type |-> "ip", value_is_ip |-> TRUE,
       ip_index |-> 1, domain_index |-> 1, critical |-> FALSE, points |-> 10],
      [benign |-> FALSE, benign_index |-> 1, type |-> "ip", value_is_ip |-> TRUE,
       ip_index |-> 2, domain_index |-> 1, critical |-> TRUE, points |-> 10],
      [benign |-> FALSE, benign_index |-> 1, type |-> "domain", value_is_ip |-> TRUE,
       ip_index |-> 1, domain_index |-> 1, critical |-> FALSE, points |-> 25],
      [benign |-> FALSE, benign_index |-> 1, type |-> "ip", value_is_ip |-> FALSE,
       ip_index |-> 1, domain_index |-> 1, critical |-> FALSE, points |-> 17] }

\* sequences of n draws from S whose first `varied` entries are free and whose
\* remaining entries repeat one draw
DrawSeqs(S, n, varied) ==
    LET k == IF varied < n THEN varied ELSE n
    IN  { [i \in 1..n |-> IF i <= k THEN p[i] ELSE t] : p \in [1..k -> S], t \in S }

\* the n smallest ids of the pool that are not in use
RECURSIVE FreshUuids(_, _)
FreshUuids(used, n) ==
    IF n = 0 THEN << >>
    ELSE LET u == CHOOSE x \in (1..UuidSpace) \ used :
                      \A y \in (1..UuidSpace) \ used : x <= y
         IN  <<u>> \o FreshUuids(used \cup {u}, n - 1)

----------------------------------------------------------------------------
(* generate_timeline *)

\* Python's min and max of two integers
Min(a, b) == IF a <= b THEN a ELSE b
Max(a, b) == IF a >= b THEN a ELSE b

\* the adjustment with its two directions exchanged
AdjustPriority_Swapped(priority, difficulty) ==
    IF difficulty = BEGINNER THEN Max(priority - 1, 1)
    ELSE IF difficulty = ADVANCED THEN Min(priority + 1, 3)
    ELSE priority

\* the priority of a base event after the difficulty adjustment
AdjustPriority(priority, difficulty) ==
    IF difficulty = BEGINNER THEN Min(priority + 1, 3)
    ELSE IF difficulty = ADVANCED THEN Max(priority - 1, 1)
    ELSE priority

_get_port_by_event_type(event_type) ==
    CASE event_type \in {"network_scan", "connection_attempt",
                         "authentication_failure", "authentication_success"} -> 22
      [] event_type = "c2_beacon" -> 53
      [] event_type = "file_download" -> 80
      [] event_type = "data_exfiltration" -> 443
      [] OTHER -> 80

\* the log line, as the format chosen and the values put into it (the random
\* port, user name or file name of a line is left out)
_generate_raw_log(event_type, source_ip, dest_ip, timestamp) ==
    IF event_type \in {"network_scan", "connection_attempt", "authentication_failure",
                       "authentication_success", "c2_beacon", "file_download"}
    THEN <<event_type, timestamp, source_ip, dest_ip>>
    ELSE <<"generic", timestamp, source_ip, event_type>>

\* the malicious ip-typed values taken from the end of the list backwards
MaliciousIps_Reversed(arts) ==
    LET sel == SelectSeq(arts, LAMBDA a : a.type = "ip" /\ a.is_malicious)
    IN  IF Len(sel) = 0 THEN SubSeq(MALICIOUS_IPS, 1, 1)
        ELSE [i \in 1..Len(sel) |-> sel[Len(sel) + 1 - i].value]

\* malicious_ips: the values of the malicious ip-typed artifacts, or the first
\* entry of MALICIOUS_IPS when there is none
MaliciousIps(arts) ==
    LET sel == SelectSeq(arts, LAMBDA a : a.type = "ip" /\ a.is_malicious)
    IN  IF Len(sel) = 0 THEN SubSeq(MALICIOUS_IPS, 1, 1)
        ELSE [i \in 1..Len(sel) |-> sel[i].value]

\* the references taken from scenario_id instead of id
ArtifactIdsFor_ScenarioId(arts, malicious_ips) ==
    LET sel == SelectSeq(arts, LAMBDA a : a.value \in Range(malicious_ips))
    IN  [i \in 1..Len(sel) |-> UuidStr(sel[i].scenario_id)]

\* [str(a.id) for a in artifacts if a.value in malicious_ips]
ArtifactIdsFor(arts, malicious_ips) ==
    LET sel == SelectSeq(arts, LAMBDA a : a.value \in Range(malicious_ips))
    IN  [i \in 1..Len(sel) |-> UuidStr(sel[i].id)]

\* one pass of the loop over enumerate(base_events); i counts from 0
BaseEvent(uuid, scenario_id, i, base_event, arts, malicious_ips, target_ip, base_timestamp, difficulty, source_port, created_at) ==
    LET event_time == base_timestamp + i * 5
        event_type == Get(base_event, "event_type", "other")
    IN  ScenarioTimelineEvent(uuid, scenario_id, event_time, event_type,
            Get(base_event, "description", ""),
            malicious_ips[1], target_ip, source_port,
            _get_port_by_event_type(Get(base_event, "event_type", "")),
            ArtifactIdsFor(arts, malicious_ips),
            AdjustPriority(Get(base_event, "priority", 2), difficulty),
            _generate_raw_log(event_type, malicious_ips[1], target_ip, event_time),
            created_at)

\* the offset taken back from the anchor instead of added to it
NoiseEvent_BeforeAnchor(uuid, scenario_id, target_ip, base_timestamp, draw, created_at) ==
    LET event_time == base_timestamp - draw.minutes
    IN  ScenarioTimelineEvent(uuid, scenario_id, event_time, draw.event_type,
            "Noise event - benign activity",
            BENIGN_IPS[draw.benign_index], target_ip, NonePort,
            draw.destination_port, << >>, 1,
            <<"BENIGN", event_time, "", "">>, created_at)

\* one pass of the loop of _generate_noise_events; draw holds the outcomes of
\* its random calls
NoiseEvent(uuid, scenario_id, target_ip, base_timestamp, draw, created_at) ==
    LET event_time == base_timestamp + draw.minutes
    IN  ScenarioTimelineEvent(uuid, scenario_id, event_time, draw.event_type,
            "Noise event - benign activity",
            BENIGN_IPS[draw.benign_index], target_ip, NonePort,
            draw.destination_port, << >>, 1,
            <<"BENIGN", event_time, "", "">>, created_at)

_generate_noise_events(uuids, scenario_id, target_ip, base_timestamp, base_event_count, draws, created_at) ==
    [k \in 1..Len(draws) |->
        NoiseEvent(uuids[k], scenario_id, target_ip, base_timestamp, draws[k], created_at)]

\* the events left in the order they were appended
SortByTimestamp_Unsorted(events) == events

\* list.sort(key=lambda x: x.timestamp): stable, ascending
RECURSIVE SortByTimestamp(_)
SortByTimestamp(events) ==
    IF Len(events) <= 1 THEN events
    ELSE LET n == Len(events)
             e == events[n]
             front == SortByTimestamp(SubSeq(events, 1, n - 1))
             k == Cardinality({i \in 1..(n - 1) : front[i].timestamp <= e.timestamp})
         IN  SubSeq(front, 1, k) \o <<e>> \o SubSeq(front, k + 1, n - 1)

\* rnd: target_ip index, source_port, and the noise draws (their number is
\* random.randint(3, 8)); uuids: the outcomes of uuid.uuid4(), in call order
generate_timeline(scenario_id, template, arts, difficulty, rnd, uuids, clock) ==
    LET malicious_ips == MaliciousIps(arts)
        target_ip == TARGET_IPS[rnd.target_index]
        base_events == template.base_timeline
        nb == Len(base_events)
        base_timestamp == clock - 120
        events == [i \in 1..nb |->
                     BaseEvent(uuids[i], scenario_id, i - 1, base_events[i], arts,
                               malicious_ips, target_ip, base_timestamp, difficulty,
                               rnd.source_port, clock)]
        noise_events ==
            IF difficulty \in {INTERMEDIATE, ADVANCED}
            THEN _generate_noise_events(SubSeq(uuids, nb + 1, Len(uuids)), scenario_id,
                                        target_ip, base_timestamp, nb, rnd.noise, clock)
            ELSE << >>
    IN  SortByTimestamp(events \o noise_events)

\* noise_count = random.randint(3, 8)
NoiseCountMin == 3
NoiseCountMax == 8
\* source_port = random.randint(10000, 65535): the model draws the low end
SourcePortLow == 10000

\* the outcomes of one noise event's random calls that the model draws from:
\* minutes is random.randint(0, base_event_count * 5 + 30)
NoiseDrawSample(base_event_count) ==
    { [minutes |-> 0, event_type |-> "connection_attempt", benign_index |-> 1,
       destination_port |-> 53],
      [minutes |-> 5, event_type |-> "network_scan", benign_index |-> 4,
       destination_port |-> 80],
      [minutes |-> base_event_count * 5 + 30, event_type |-> "other", benign_index |-> 5,
       destination_port |-> 443] }

\* the target draws of the model: the first and the last of TARGET_IPS
TargetIndexSample == {1, Len(TARGET_IPS)}

TimelineRnd(template, difficulty) ==
    LET nb == Len(template.base_timeline)
    IN  IF difficulty \in {INTERMEDIATE, ADVANCED}
        THEN { [target_index |-> t, source_port |-> SourcePortLow, noise |-> ns] :
                 t \in TargetIndexSample,
                 ns \in UNION { DrawSeqs(NoiseDrawSample(nb), c, MaxVariedNoise) :
                                  c \in NoiseCountMin..NoiseCountMax } }
        ELSE { [target_index |-> t, source_port |-> SourcePortLow, noise |-> << >>] :
                 t \in TargetIndexSample }

----------------------------------------------------------------------------
(* Persistence: get_template_by_type and save_scenario_to_db *)

\* the index in Templates of the first active row of the incident type, 0 for
\* None: no session, no such row, or the query raised
get_template_by_type(db, db_raises, incident_type) ==
    IF ~db THEN 0
    ELSE IF db_raises THEN 0
    ELSE LET rows == {i \in DOMAIN Templates :
                        /\ Templates[i].incident_type = incident_type
                        /\ Templates[i].is_active}
         IN  IF rows = {} THEN 0 ELSE CHOOSE i \in rows : \A j \in rows : i <= j

EmptyStore == [scenarios |-> {}, artifacts |-> {}, timeline |-> {}]

\* the rows the statements before statement fail_at put into the tables
RowsBefore(st, scn, arts, events, fail_at) ==
    [scenarios |-> st.scenarios \cup (IF fail_at > 1 THEN {scn} ELSE {}),
     artifacts |-> st.artifacts
         \cup {arts[i] : i \in {j \in DOMAIN arts : j + 1 < fail_at}},
     timeline |-> st.timeline
         \cup {events[i] : i \in {j \in DOMAIN events : j + 1 + Len(arts) < fail_at}}]

\* the save without its rollback: what ran before the failure stays
save_scenario_to_db_NoRollback(db, st, scn, arts, events, fail_at) ==
    IF ~db THEN [ok |-> FALSE, store |-> st]
    ELSE IF fail_at # 0
    THEN [ok |-> FALSE, store |-> RowsBefore(st, scn, arts, events, fail_at)]
    ELSE [ok |-> TRUE,
          store |-> [scenarios |-> st.scenarios \cup {scn},
                     artifacts |-> st.artifacts \cup Range(arts),
                     timeline |-> st.timeline \cup Range(events)]]

\* fail_at: 0 when no statement fails, else the number of the statement that
\* raises (1 the scenario insert, then one per artifact, one per event, last
\* the commit).  A failure rolls the transaction back.
save_scenario_to_db(db, st, scn, arts, events, fail_at) ==
    IF ~db THEN [ok |-> FALSE, store |-> st]
    ELSE IF fail_at # 0 THEN [ok |-> FALSE, store |-> st]
    ELSE [ok |-> TRUE,
          store |-> [scenarios |-> st.scenarios \cup {scn},
                     artifacts |-> st.artifacts \cup Range(arts),
                     timeline |-> st.timeline \cup Range(events)]]

StoredIds(st) ==
    {r.id : r \in st.scenarios} \cup {r.id : r \in st.artifacts}
        \cup {r.id : r \in st.timeline}

----------------------------------------------------------------------------
(* The generate-scenario route, routes/scenarios.py *)

\* scenario_service = ScenarioGeneratorService(): db_session is left at None
scenario_service_db == FALSE

\* IncidentTypes is a plain class of string constants, not an Enum: iterating
\* it ([t.value for t in IncidentTypes]) raises TypeError
IncidentTypesIterable == FALSE

NoData == [scenario_id |-> 0, artifacts |-> << >>, timeline |-> << >>]

\* the answer for a missing template: the 404 body lists the available types,
\* and an exception raised while building it is answered by the handler's
\* except clause with 500
NotFoundResponse ==
    IF IncidentTypesIterable
    THEN [status |-> 404, success |-> FALSE, error |-> "No template found", data |-> NoData,
          request |-> ""]
    ELSE [status |-> 500, success |-> FALSE, error |-> "TypeError", data |-> NoData,
          request |-> ""]

\* the incident types and difficulties a request may carry (neither is validated)
IncidentTypeInputs == {"port_scanning", "c2_communication", "apt_activity", "no_such_type"}
RequestDifficulties == {BEGINNER, INTERMEDIATE, ADVANCED, "expert"}
ScenarioIdSample == {1, 2}

----------------------------------------------------------------------------
(* Strings.  TLC gives no access to the characters of a string, so every   *)
(* string the enrichment simulator looks into is listed with its           *)
(* characters; the str methods the code uses are computed on those.        *)

Chars(s) ==
    CASE s = "8.8.8.8" -> <<"8", ".", "8", ".", "8", ".", "8">>
      [] s = "185.220.101.42" -> <<"1", "8", "5", ".", "2", "2", "0", ".", "1", "0", "1", ".", "4", "2">>
      [] s = "192.168.1.1" -> <<"1", "9", "2", ".", "1", "6", "8", ".", "1", ".", "1">>
      [] s = "2001:4860:4860::8888" -> <<"2", "0", "0", "1", ":", "4", "8", "6", "0", ":", "4", "8", "6", "0", ":", ":", "8", "8", "8", "8">>
      [] s = "not-an-ip" -> <<"n", "o", "t", "-", "a", "n", "-", "i", "p">>
      [] s = "malware-c2.badssl.com" -> <<"m", "a", "l", "w", "a", "r", "e", "-", "c", "2", ".", "b", "a", "d", "s", "s", "l", ".", "c", "o", "m">>
      [] s = "example.org" -> <<"e", "x", "a", "m", "p", "l", "e", ".", "o", "r", "g">>
      [] s = "secure-login.net" -> <<"s", "e", "c", "u", "r", "e", "-", "l", "o", "g", "i", "n", ".", "n", "e", "t">>
      [] s = "91.219.236.166" -> <<"9", "1", ".", "2", "1", "9", ".", "2", "3", "6", ".", "1", "6", "6">>
      [] s = "45.227.254.12" -> <<"4", "5", ".", "2", "2", "7", ".", "2", "5", "4", ".", "1", "2">>
      [] s = "1.1.1.1" -> <<"1", ".", "1", ".", "1", ".", "1">>
      [] s = "208.67.222.222" -> <<"2", "0", "8", ".", "6", "7", ".", "2", "2", "2", ".", "2", "2", "2">>
      [] s = "v=spf1 include:_spf.google.com ~all" -> <<"v", "=", "s", "p", "f", "1", " ", "i", "n", "c", "l", "u", "d", "e", ":", "_", "s", "p", "f", ".", "g", "o", "o", "g", "l", "e", ".", "c", "o", "m", " ", "~", "a", "l", "l">>
      [] s = "v=spf1 -all" -> <<"v", "=", "s", "p", "f", "1", " ", "-", "a", "l", "l">>
      [] s = "malware" -> <<"m", "a", "l", "w", "a", "r", "e">>
      [] s = "c2" -> <<"c", "2">>
      [] s = "phishing" -> <<"p", "h", "i", "s", "h", "i", "n", "g">>
      [] s = "evil" -> <<"e", "v", "i", "l">>
      [] s = "bad" -> <<"b", "a", "d">>
      [] s = "test" -> <<"t", "e", "s", "t">>
      [] s = "secure" -> <<"s", "e", "c", "u", "r", "e">>
      [] s = "phish" -> <<"p", "h", "i", "s", "h">>
      [] s = "185.220" -> <<"1", "8", "5", ".", "2", "2", "0">>
      [] s = "91.219" -> <<"9", "1", ".", "2", "1", "9">>
      [] s = "45.227" -> <<"4", "5", ".", "2", "2", "7">>
      [] s = "-all" -> <<"-", "a", "l", "l">>
      [] s = "185.220." -> <<"1", "8", "5", ".", "2", "2", "0", ".">>
      [] s = "8.8." -> <<"8", ".", "8", ".">>
      [] s = "1.1." -> <<"1", ".", "1", ".">>
      [] s = "185.220.0.0" -> <<"1", "8", "5", ".", "2", "2", "0", ".", "0", ".", "0">>
      [] s = "185.220.255.255" -> <<"1", "8", "5", ".", "2", "2", "0", ".", "2", "5", "5", ".", "2", "5", "5">>
      [] s = "91.219.0.0" -> <<"9", "1", ".", "2", "1", "9", ".", "0", ".", "0">>
      [] s = "91.219.255.255" -> <<"9", "1", ".", "2", "1", "9", ".", "2", "5", "5", ".", "2", "5", "5">>
      [] s = "45.227.0.0" -> <<"4", "5", ".", "2", "2", "7", ".", "0", ".", "0">>
      [] s = "45.227.255.255" -> <<"4", "5", ".", "2", "2", "7", ".", "2", "5", "5", ".", "2", "5", "5">>
      [] s = "103.35.74.21" -> <<"1", "0", "3", ".", "3", "5", ".", "7", "4", ".", "2", "1">>
      [] s = "10.0.0.1" -> <<"1", "0", ".", "0", ".", "0", ".", "1">>
      [] s = "fe80::1" -> <<"f", "e", "8", "0", ":", ":", "1">>
      [] s = "Evil-Test.com" -> <<"E", "v", "i", "l", "-", "T", "e", "s", "t", ".", "c", "o", "m">>
      [] s = "evil-test.com" -> <<"e", "v", "i", "l", "-", "t", "e", "s", "t", ".", "c", "o", "m">>
      [] s = "phish-bad.net" -> <<"p", "h", "i", "s", "h", "-", "b", "a", "d", ".", "n", "e", "t">>
      [] s = "http://secure-login.net/login" -> <<"h", "t", "t", "p", ":", "/", "/", "s", "e", "c", "u", "r", "e", "-", "l", "o", "g", "i", "n", ".", "n", "e", "t", "/", "l", "o", "g", "i", "n">>
      [] s = "https://malware-c2.badssl.com/" -> <<"h", "t", "t", "p", "s", ":", "/", "/", "m", "a", "l", "w", "a", "r", "e", "-", "c", "2", ".", "b", "a", "d", "s", "s", "l", ".", "c", "o", "m", "/">>
      [] s = "ftp://example.org/x" -> <<"f", "t", "p", ":", "/", "/", "e", "x", "a", "m", "p", "l", "e", ".", "o", "r", "g", "/", "x">>
      [] s = "http://" -> <<"h", "t", "t", "p", ":", "/", "/">>
      [] s = "https://" -> <<"h", "t", "t", "p", "s", ":", "/", "/">>

UpperAlpha ==
    <<"A", "B", "C", "D", "E", "F", "G", "H", "I", "J", "K", "L", "M",
      "N", "O", "P", "Q", "R", "S", "T", "U", "V", "W", "X", "Y", "Z">>
LowerAlpha ==
    <<"a", "b", "c", "d", "e", "f", "g", "h", "i", "j", "k", "l", "m",
      "n", "o", "p", "q", "r", "s", "t", "u", "v", "w", "x", "y", "z">>

\* str.lower()
lower(cs) ==
    [i \in 1..Len(cs) |->
        IF \E j \in 1..Len(UpperAlpha) : UpperAlpha[j] = cs[i]
        THEN LowerAlpha[CHOOSE j \in 1..Len(UpperAlpha) : UpperAlpha[j] = cs[i]]
        ELSE cs[i]]

\* sub in s
Contains(cs, sub) ==
    \E i \in 0..(Len(cs) - Len(sub)) : SubSeq(cs, i + 1, i + Len(sub)) = sub

\* s.startswith(prefix)
startswith(cs, prefix) ==
    Len(prefix) <= Len(cs) /\ SubSeq(cs, 1, Len(prefix)) = prefix

\* s.split(sep), sep one character
RECURSIVE split(_, _)
split(cs, sep) ==
    IF \E i \in 1..Len(cs) : cs[i] = sep
    THEN LET i == CHOOSE j \in 1..Len(cs) :
                      cs[j] = sep /\ \A h \in 1..(j - 1) : cs[h] # sep
         IN  <<SubSeq(cs, 1, i - 1)>> \o split(SubSeq(cs, i + 1, Len(cs)), sep)
    ELSE <<cs>>

\* s.replace(old, new), old and new one character
replace(cs, old, new) == [i \in 1..Len(cs) |-> IF cs[i] = old THEN new ELSE cs[i]]

\* the string of a sequence of characters
RECURSIVE Str(_)
Str(cs) == IF cs = << >> THEN "" ELSE Head(cs) \o Str(Tail(cs))

----------------------------------------------------------------------------
(* ipaddress.ip_address: the parsed address, or ValueError.  IPv6 text is  *)
(* read in its full form or with one "::" between groups.                  *)

HexDigits ==
    <<"0", "1", "2", "3", "4", "5", "6", "7", "8", "9", "a", "b", "c", "d", "e", "f">>

IsDigit(c, base) == \E i \in 1..base : HexDigits[i] = c
DigitValue(c) == (CHOOSE i \in 1..Len(HexDigits) : HexDigits[i] = c) - 1

RECURSIVE NumberValue(_, _)
NumberValue(cs, base) ==
    IF cs = << >> THEN 0
    ELSE NumberValue(SubSeq(cs, 1, Len(cs) - 1), base) * base + DigitValue(cs[Len(cs)])

\* an octet of dotted-quad text: decimal, at most 255, no leading zero
ValidOctet(part) ==
    /\ Len(part) \in 1..3
    /\ \A i \in 1..Len(part) : IsDigit(part[i], 10)
    /\ Len(part) > 1 => part[1] # "0"
    /\ NumberValue(part, 10) <= 255

ValidGroup(part) ==
    /\ Len(part) \in 1..4
    /\ \A i \in 1..Len(part) : IsDigit(part[i], 16)

\* the eight groups of IPv6 text whose parts (split at ":") are given
IPv6Groups(parts) ==
    LET gap == {i \in 1..Len(parts) : parts[i] = << >>}
        value(i) == NumberValue(lower(parts[i]), 16)
    IN  IF gap = {}
        THEN [i \in 1..8 |-> value(i)]
        ELSE LET g == CHOOSE i \in gap : TRUE
                 missing == 8 - (Len(parts) - 1)
             IN  [i \in 1..8 |->
                    IF i < g THEN value(i)
                    ELSE IF i < g + missing THEN 0
                    ELSE value(i - missing + 1)]

ValidIPv6(parts) ==
    LET gap == {i \in 1..Len(parts) : parts[i] = << >>}
    IN  /\ \A i \in (1..Len(parts)) \ gap : ValidGroup(lower(parts[i]))
        /\ \/ gap = {} /\ Len(parts) = 8
           \/ Cardinality(gap) = 1 /\ Len(parts) <= 8
              /\ gap \cap {1, Len(parts)} = {}

\* the 10/8 network alone
IsPrivateV4_TenOnly(o) == o[1] = 10

\* IPv4Address.is_private: membership of the networks the library lists
IsPrivateV4(o) ==
    \/ o[1] \in {0, 10, 127}
    \/ o[1] = 169 /\ o[2] = 254
    \/ o[1] = 172 /\ o[2] \in 16..31
    \/ o[1] = 192 /\ o[2] = 0 /\ o[3] = 0 /\ o[4] \in (0..7) \cup {170, 171}
    \/ o[1] = 192 /\ o[2] = 0 /\ o[3] = 2
    \/ o[1] = 192 /\ o[2] = 168
    \/ o[1] = 198 /\ o[2] \in {18, 19}
    \/ o[1] = 198 /\ o[2] = 51 /\ o[3] = 100
    \/ o[1] = 203 /\ o[2] = 0 /\ o[3] = 113
    \/ o[1] >= 240

\* IPv6Address.is_private, likewise (groups are 16-bit numbers)
IsPrivateV6(g) ==
    \/ (\A i \in 1..7 : g[i] = 0) /\ g[8] \in {0, 1}
    \/ (\A i \in 1..5 : g[i] = 0) /\ g[6] = 65535
    \/ g[1] = 256 /\ g[2] = 0 /\ g[3] = 0 /\ g[4] = 0
    \/ g[1] = 8193 /\ g[2] < 512
    \/ g[1] = 8193 /\ g[2] = 3512
    \/ g[1] = 8193 /\ g[2] \in 16..31
    \/ g[1] \in 64512..65023
    \/ g[1] \in 65152..65215

\* ok: the text parses (FALSE: ValueError); version 4 or 6; words: the
\* octets or groups, most significant first
ParseAddress(ip) ==
    LET IPv4Address(o) ==
            [ok |-> TRUE, version |-> 4, words |-> o, is_private |-> IsPrivateV4(o)]
        IPv6Address(g) ==
            [ok |-> TRUE, version |-> 6, words |-> g, is_private |-> IsPrivateV6(g)]
        parse(quad, parts) ==
            IF Len(quad) = 4 /\ \A i \in 1..4 : ValidOctet(quad[i])
            THEN IPv4Address([i \in 1..4 |-> NumberValue(quad[i], 10)])
            ELSE IF Len(parts) > 1 /\ ValidIPv6(parts)
            THEN IPv6Address(IPv6Groups(parts))
            ELSE [ok |-> FALSE, version |-> 0, words |-> << >>, is_private |-> FALSE]
    IN  parse(split(Chars(ip), "."), split(Chars(ip), ":"))

----------------------------------------------------------------------------
(* What the code asks of its strings, computed once for every string of    *)
(* Chars.                                                                  *)

Texts ==
    {"8.8.8.8", "185.220.101.42", "192.168.1.1", "2001:4860:4860::8888",
     "not-an-ip", "malware-c2.badssl.com", "example.org", "secure-login.net",
     "91.219.236.166", "45.227.254.12", "1.1.1.1", "208.67.222.222",
     "v=spf1 include:_spf.google.com ~all", "v=spf1 -all", "malware", "c2",
     "phishing", "evil", "bad", "test",
     "secure", "phish", "185.220", "91.219",
     "45.227", "-all", "185.220.", "8.8.",
     "1.1.", "185.220.0.0", "185.220.255.255", "91.219.0.0",
     "91.219.255.255", "45.227.0.0", "45.227.255.255",
     "103.35.74.21", "10.0.0.1", "fe80::1",
     "Evil-Test.com", "evil-test.com", "phish-bad.net"}

\* s.lower()
LowerOf == [s \in Texts |-> Str(lower(Chars(s)))]
\* the listed strings sub with: sub in s
WithinOf == [s \in Texts |-> {sub \in Texts : Contains(Chars(s), Chars(sub))}]
\* the listed strings prefix with: s.startswith(prefix)
PrefixesOf == [s \in Texts |-> {prefix \in Texts : startswith(Chars(s), Chars(prefix))}]
\* s.split(".")
SplitOf ==
    [s \in Texts |->
        LET parts == split(Chars(s), ".") IN [i \in 1..Len(parts) |-> Str(parts[i])]]
\* s.replace(".", "-")
ReplacedOf == [s \in Texts |-> Str(replace(Chars(s), ".", "-"))]
\* ip_address(s)
AddressOf == [s \in Texts |-> ParseAddress(s)]

ip_address(ip) == AddressOf[ip]

\* a <= b on addresses of one version
RECURSIVE WordsLeq(_, _)
WordsLeq(a, b) ==
    \/ a = << >>
    \/ Head(a) < Head(b)
    \/ Head(a) = Head(b) /\ WordsLeq(Tail(a), Tail(b))

----------------------------------------------------------------------------
(* The enrichment simulator, InvestigationToolsService                     *)
(* (backend/services/investigation_tools_service.py).  An Optional[Dict]   *)
(* or Optional[str] is None or the value, a str then wrapped by PyStr.     *)
(* Coordinates are in 1/10000 degree.  A generator that can raise returns  *)
(* [raised, data].  A value the code keeps in a local and uses more than   *)
(* once is the argument of a local operator, so it is worked out once.     *)

PyStr(s) == [str |-> s]

\* the dict in its order of keys
COUNTRIES ==
    << [code |-> "DE", name |-> "Germany", latitude |-> 511657, longitude |-> 104515],
       [code |-> "US", name |-> "United States", latitude |-> 370902, longitude |-> -957129],
       [code |-> "RU", name |-> "Russia", latitude |-> 615240, longitude |-> 1053188],
       [code |-> "CN", name |-> "China", latitude |-> 358617, longitude |-> 1041954],
       [code |-> "BR", name |-> "Brazil", latitude |-> -142350, longitude |-> -519253],
       [code |-> "NL", name |-> "Netherlands", latitude |-> 521326, longitude |-> 52913],
       [code |-> "FR", name |-> "France", latitude |-> 462276, longitude |-> 22137],
       [code |-> "UA", name |-> "Ukraine", latitude |-> 483794, longitude |-> 311656],
       [code |-> "KR", name |-> "South Korea", latitude |-> 359078, longitude |-> 1277669],
       [code |-> "JP", name |-> "Japan", latitude |-> 362048, longitude |-> 1382529] >>

ISP_DATA ==
    [ip \in {"185.220.101.42", "91.219.236.166", "45.227.254.12", "8.8.8.8", "1.1.1.1"} |->
        CASE ip = "185.220.101.42" ->
                [isp |-> "Tor Exit Node", asn |-> "AS60068", org |-> "DataWire Inc"]
          [] ip = "91.219.236.166" ->
                [isp |-> "Global Layer", asn |-> "AS49453", org |-> "Global Layer LLC"]
          [] ip = "45.227.254.12" ->
                [isp |-> ".host", asn |-> "AS202425", org |-> "IP Volume inc"]
          [] ip = "8.8.8.8" ->
                [isp |-> "Google LLC", asn |-> "AS15169", org |-> "Google LLC"]
          [] ip = "1.1.1.1" ->
                [isp |-> "Cloudflare, Inc.", asn |-> "AS13335", org |-> "Cloudflare, Inc."]]

\* the first record spells one key with a leading blank; neither record has
\* is_suspicious or threat_indicators
WHOIS_DATA ==
    [domain \in {"malware-c2.badssl.com", "phishing-test.example.com"} |->
        IF domain = "malware-c2.badssl.com"
        THEN [domain |-> "malware-c2.badssl.com",
              registrar |-> "NameCheap, Inc.",
              created_date |-> "2024-01-15",
              expires_date |-> "2025-01-15",
              nameservers |-> <<"ns1.cloudprovider.com", "ns2.cloudprovider.com",
                                "ns3.cloudprovider.com">>,
              whois_server |-> "whois.namecheap.com",
              status |-> "clientTransferProhibited",
              admin_country |-> "RU",
              tech_country |-> "RU"] @@ (" registrant_country" :> "RU")
        ELSE [domain |-> "phishing-test.example.com",
              registrar |-> "GoDaddy.com, LLC",
              created_date |-> "2023-06-20",
              expires_date |-> "2025-06-20",
              nameservers |-> <<"ns1.example-dns.com", "ns2.example-dns.com">>,
              whois_server |-> "whois.godaddy.com",
              status |-> "ok",
              registrant_country |-> "CN",
              admin_country |-> "CN",
              tech_country |-> "CN"]]

MALICIOUS_IP_RANGES ==
    << <<"185.220.0.0", "185.220.255.255">>,
       <<"91.219.0.0", "91.219.255.255">>,
       <<"45.227.0.0", "45.227.255.255">> >>

\* timedelta(hours=24), in minutes
cache_duration == 1440

\* timedelta(days=n), in minutes
days(n) == n * 1440

\* datetime.isoformat() and strftime('%Y-%m-%d'): the text of a time, of its day
isoformat(t) == "T" \o ToString(t)
strftime_date(t) == "D" \o ToString(t \div 1440)

abs(n) == IF n < 0 THEN -n ELSE n

----------------------------------------------------------------------------
(* random.*: the k-th sampled outcome.  Sample 1 draws the least value,    *)
(* sample 2 the greatest, the others values between.                       *)

randint(a, b, k) ==
    CASE k = 1 -> a
      [] k = 2 -> b
      [] OTHER -> a + ((b - a) * (k - 2)) \div k

\* random.uniform
uniform(a, b, k) == randint(a, b, k)

\* random.random(), in hundredths
random_pct(k) == randint(0, 99, k)

\* random.choice
choice(seq, k) == seq[((k - 1) % Len(seq)) + 1]

----------------------------------------------------------------------------
(* Geolocation *)

\* the comparison of addresses of different versions raises TypeError,
\* which the except clause (ValueError) lets through
\* every exception of the check swallowed
_is_known_malicious_ip_Never(ip) == [raised |-> FALSE, value |-> FALSE]

_is_known_malicious_ip(ip) ==
    LET check(ip_obj, ranges) ==
            IF ~ip_obj.ok
            THEN [raised |-> FALSE, value |-> FALSE]
            ELSE IF ranges[1].start_ip.version # ip_obj.version
            THEN [raised |-> TRUE, value |-> FALSE]
            ELSE [raised |-> FALSE,
                  value |-> \E i \in DOMAIN ranges :
                                /\ WordsLeq(ranges[i].start_ip.words, ip_obj.words)
                                /\ WordsLeq(ip_obj.words, ranges[i].end_ip.words)]
    IN  check(ip_address(ip),
              [i \in DOMAIN MALICIOUS_IP_RANGES |->
                  [start_ip |-> ip_address(MALICIOUS_IP_RANGES[i][1]),
                   end_ip |-> ip_address(MALICIOUS_IP_RANGES[i][2])]])

_get_usage_type(is_malicious, k) ==
    IF is_malicious
    THEN choice(<<"VPN/Tor", "Hosting", "ISP", "Data Center">>, k)
    ELSE choice(<<"Commercial", "Residential", "Educational", "Government">>, k)

cities(code) ==
    CASE code = "DE" -> "Frankfurt"
      [] code = "US" -> "New York"
      [] code = "RU" -> "Moscow"
      [] code = "CN" -> "Beijing"
      [] code = "BR" -> "Sao Paulo"   \* the source spells it with a tilde
      [] code = "NL" -> "Amsterdam"
      [] code = "FR" -> "Paris"
      [] code = "UA" -> "Kyiv"
      [] code = "KR" -> "Seoul"
      [] code = "JP" -> "Tokyo"
      [] OTHER -> "Unknown City"

\* ip_hash: hash(ip) in the running process
_generate_geolocation(ip, ip_hash, k, clock) ==
    LET generate(ip_obj, known, country, isp_info) ==
        LET is_private == ip_obj.ok /\ ip_obj.is_private
            is_malicious == known.value
        IN
        IF is_private
        THEN [raised |-> FALSE,
              data |-> [ip |-> ip, country_code |-> "XX", country_name |-> "Private Network",
                        city |-> "Internal Network", latitude |-> 0, longitude |-> 0,
                        isp |-> "Internal", as_number |-> "Private",
                        as_name |-> "Private Network", is_private |-> TRUE,
                        is_malicious |-> FALSE, usage_type |-> "Internal",
                        threat_level |-> "none"]]
        ELSE IF known.raised
        THEN [raised |-> TRUE, data |-> None]
        ELSE [raised |-> FALSE,
              data |-> [ip |-> ip,
                        country_code |-> country.code,
                        country_name |-> country.name,
                        city |-> cities(country.code),
                        latitude |-> country.latitude + uniform(-20000, 20000, k),
                        longitude |-> country.longitude + uniform(-20000, 20000, k),
                        isp |-> isp_info.isp,
                        as_number |-> isp_info.asn,
                        as_name |-> Get(isp_info, "org", ""),
                        is_private |-> FALSE,
                        is_malicious |-> is_malicious,
                        usage_type |-> _get_usage_type(is_malicious, k),
                        threat_level |-> IF is_malicious THEN "high" ELSE "low",
                        abuse_confidence_score |->
                            IF is_malicious THEN randint(50, 100, k) ELSE randint(0, 30, k),
                        total_reports |->
                            IF is_malicious THEN randint(10, 500, k) ELSE randint(0, 10, k),
                        last_reported |-> isoformat(clock - days(randint(0, 30, k)))]]
    IN  generate(ip_address(ip),
                 _is_known_malicious_ip(ip),
                 COUNTRIES[(ip_hash % Len(COUNTRIES)) + 1],
                 Get(ISP_DATA, ip,
                     [isp |-> "ISP " \o ToString(ip_hash % 1000),
                      asn |-> "AS" \o ToString(abs(ip_hash) % 100000),
                      org |-> "Organization " \o ToString(abs(ip_hash) % 100)]))

----------------------------------------------------------------------------
(* WHOIS *)

\* any(word in domain.lower() for word in words)
AnyWord(domain, words) ==
    \E word \in words : word \in WithinOf[LowerOf[domain]]

_get_threat_indicators(domain) ==
    LET or_default(indicators) ==
            IF indicators = << >>
            THEN <<"Domain pattern matches known malicious domains">>
            ELSE indicators
        check(within) ==
            or_default(
            (IF "c2" \in within
             THEN <<"Domain associated with C2 infrastructure">> ELSE << >>)
            \o (IF "phish" \in within
                THEN <<"Domain associated with phishing campaigns">> ELSE << >>)
            \o (IF "malware" \in within
                THEN <<"Domain associated with malware distribution">> ELSE << >>)
            \o (IF "test" \in within
                THEN <<"Test domain - potentially used for malicious testing">> ELSE << >>))
    IN  check(WithinOf[LowerOf[domain]])

_generate_whois(domain, k, clock) ==
    IF domain \in DOMAIN WHOIS_DATA
    THEN WHOIS_DATA[domain]
    ELSE
    LET generate(is_suspicious) ==
    LET registrars == <<"NameCheap, Inc.", "GoDaddy.com, LLC", "Tucows Domains Inc.",
                        "Domain.com, LLC", "Name.com, Inc.">>
        countries == <<"US", "CN", "RU", "BR", "NL", "DE", "UA">>
        providers == <<"cloud", "dns", "net", "host">>
        created_days_ago == randint(30, 730, k)
        expires_days == randint(365, 730, k)
    IN  [domain |-> domain,
         registrar |-> choice(registrars, k),
         created_date |-> strftime_date(clock - days(created_days_ago)),
         expires_date |-> strftime_date(clock + days(expires_days)),
         nameservers |-> <<"ns1." \o choice(providers, k) \o "provider.com",
                           "ns2." \o choice(providers, k) \o "provider.com">>,
         whois_server |-> "whois.registrar.com",
         status |-> IF is_suspicious THEN "clientTransferProhibited" ELSE "ok",
         registrant_country |-> choice(countries, k),
         admin_country |-> choice(countries, k),
         tech_country |-> choice(countries, k),
         is_suspicious |-> is_suspicious,
         threat_indicators |->
             IF is_suspicious THEN _get_threat_indicators(domain) ELSE << >>]
    IN  generate(AnyWord(domain,
                         {"malware", "c2", "phishing", "evil", "bad", "test", "secure"}))

----------------------------------------------------------------------------
(* Passive DNS *)

RECURSIVE Flatten(_)
Flatten(seqs) == IF seqs = << >> THEN << >> ELSE Head(seqs) \o Flatten(Tail(seqs))

_get_pdns_threat_indicators(records) ==
    LET of(record) ==
            (IF /\ record.type = "A"
                /\ \E malicious \in {"185.220", "91.219", "45.227"} :
                       malicious \in WithinOf[record.value]
             THEN <<"A record points to known malicious IP: " \o record.value>>
             ELSE << >>)
            \o (IF record.type = "TXT" /\ "-all" \in WithinOf[record.value]
                THEN <<"SPF record rejects all email (potential phishing)">>
                ELSE << >>)
        or_default(indicators) ==
            IF indicators = << >>
            THEN <<"DNS records match patterns of malicious infrastructure">>
            ELSE indicators
    IN  or_default(Flatten([i \in 1..Len(records) |-> of(records[i])]))

_generate_pdns(domain, k, clock) ==
    LET result(is_suspicious, records) ==
            [domain |-> domain,
             records |-> records,
             total_records |-> Len(records),
             is_suspicious |-> is_suspicious,
             threat_indicators |->
                 IF is_suspicious THEN _get_pdns_threat_indicators(records) ELSE << >>]
        generate(is_suspicious) ==
    LET first_seen == isoformat(clock - days(randint(30, 365, k)))
        last_seen == isoformat(clock - days(randint(0, 7, k)))
        a_ips == IF is_suspicious
                 THEN <<"185.220.101.42", "91.219.236.166", "45.227.254.12">>
                 ELSE <<"8.8.8.8", "1.1.1.1", "208.67.222.222">>
        a_records ==
            [i \in 1..randint(1, 3, k) |->
                [type |-> "A", value |-> a_ips[i],
                 first_seen |-> first_seen, last_seen |-> last_seen]]
        aaaa_records ==
            IF is_suspicious THEN << >>
            ELSE << [type |-> "AAAA", value |-> "2001:db8::1",
                     first_seen |-> first_seen, last_seen |-> last_seen] >>
        mx_hosts == <<"mail." \o domain, "smtp." \o domain, "mail.google.com">>
        mx_records ==
            [i \in 1..randint(1, 2, k) |->
                [type |-> "MX", value |-> mx_hosts[i],
                 priority |-> randint(10, 50, k), first_seen |-> first_seen]]
        ns_hosts == <<"ns1." \o domain, "ns2." \o domain>>
        ns_records ==
            [i \in 1..Len(ns_hosts) |->
                [type |-> "NS", value |-> ns_hosts[i], first_seen |-> first_seen]]
        txt_values == <<"v=spf1 include:_spf.google.com ~all">>
                      \o (IF is_suspicious THEN <<"v=spf1 -all">> ELSE << >>)
        txt_records ==
            [i \in 1..Len(txt_values) |->
                [type |-> "TXT", value |-> txt_values[i], first_seen |-> first_seen]]
    IN  result(is_suspicious,
               a_records \o aaaa_records \o mx_records \o ns_records \o txt_records)
    IN  generate(AnyWord(domain, {"malware", "c2", "phishing", "evil", "bad", "test"}))

----------------------------------------------------------------------------
(* Reverse DNS and host scan *)

_generate_reverse_dns(ip) ==
    LET generate(ip_obj, prefixes, parts, dashed) ==
            IF ip_obj.ok /\ ip_obj.is_private THEN None
            ELSE IF "185.220." \in prefixes
            THEN PyStr("tor-exit-" \o parts[3] \o ".torproxy.net")
            ELSE IF "8.8." \in prefixes THEN PyStr("dns.google")
            ELSE IF "1.1." \in prefixes THEN PyStr("one.one.one.one")
            ELSE PyStr(dashed \o ".unknown.domain")
    IN  generate(ip_address(ip), PrefixesOf[ip], SplitOf[ip], ReplacedOf[ip])

_get_country_by_ip(ip_hash) == COUNTRIES[(ip_hash % Len(COUNTRIES)) + 1].code

_generate_shodan(ip, ip_hash, k, clock) ==
    LET generate(ip_obj, hostname, known) ==
    LET has_ssh == random_pct(k) > 30
        has_http == random_pct(k) > 40
        has_telnet == random_pct(k) > 80
        has_ftp == random_pct(k) > 70
        ports == (IF has_ssh THEN <<22>> ELSE << >>)
                 \o (IF has_http THEN <<80>> ELSE << >>)
                 \o (IF has_telnet THEN <<23>> ELSE << >>)
                 \o (IF has_ftp THEN <<21>> ELSE << >>)
        vulns == IF random_pct(k) > 70 THEN <<"CVE-2024-1234", "CVE-2023-5678">> ELSE << >>
    IN  IF ip_obj.ok /\ ip_obj.is_private
        THEN [raised |-> FALSE,
              data |-> [ip |-> ip, error |-> "Private IP - no Shodan data available",
                        is_private |-> TRUE]]
        ELSE IF known.raised
        THEN [raised |-> TRUE, data |-> None]
        ELSE [raised |-> FALSE,
              data |-> [ip |-> ip,
                        ports |-> ports,
                        hostnames |-> IF hostname # None THEN <<hostname.str>> ELSE << >>,
                        country |-> _get_country_by_ip(ip_hash),
                        org |-> Get(Get(ISP_DATA, ip, << >>), "org", "Unknown"),
                        os |-> "Linux " \o ToString(choice(<<3, 4, 5>>, k)) \o ".x",
                        vulnerabilities |-> vulns,
                        vuln_count |-> Len(vulns),
                        last_update |-> isoformat(clock),
                        is_malicious |-> known.value,
                        threat_score |->
                            IF known.value THEN randint(50, 100, k) ELSE randint(0, 30, k)]]
    IN  generate(ip_address(ip), _generate_reverse_dns(ip), _is_known_malicious_ip(ip))

----------------------------------------------------------------------------
(* The cache, table enriched_data_cache.  cx is the service and its        *)
(* surroundings during one call:                                           *)
(*   db            self.db is set                                          *)
(*   rows          the rows of the table                                   *)
(*   clock         datetime.utcnow() and the store's NOW()                 *)
(*   ip_hash       hash(value) in the running process                      *)
(*   k             the sample the random draws of the call come from       *)
(*   read_raises   the store raises on the SELECT of this call             *)
(*   write_raises  the store raises on the INSERT or the commit            *)
(*   decoded       the driver hands result_data over as a dict, not text   *)

\* the text json.dumps writes, a different value from the dict
json_dumps(data) == [json |-> data]
json_loads(text) == text.json
\* isinstance(x, str) of a column value
isinstance_str(x) == DOMAIN x = {"json"}
\* bool(x) of an Optional[Dict] or a column value
Truthy(x) == x # None /\ DOMAIN x # {}

\* the read without the decoding of a text column
_get_cached_data_Raw(cx, query_type, query_value) ==
    LET found == {r \in cx.rows : /\ r.query_type = query_type
                                  /\ r.query_value = query_value
                                  /\ r.expires_at > cx.clock}
    IN  IF ~cx.db \/ cx.read_raises \/ found = {} THEN None
        ELSE LET row == CHOOSE r \in found : TRUE
             IN  IF cx.decoded THEN json_loads(row.result_data) ELSE row.result_data

\* the read with expires_at >= NOW()
_get_cached_data_AtExpiry(cx, query_type, query_value) ==
    LET found == {r \in cx.rows : /\ r.query_type = query_type
                                  /\ r.query_value = query_value
                                  /\ r.expires_at >= cx.clock}
    IN  IF ~cx.db \/ cx.read_raises \/ found = {} THEN None
        ELSE json_loads((CHOOSE r \in found : TRUE).result_data)

_get_cached_data(cx, query_type, query_value) ==
    IF ~cx.db THEN None
    ELSE IF cx.read_raises THEN None
    ELSE LET found == {r \in cx.rows : /\ r.query_type = query_type
                                       /\ r.query_value = query_value
                                       /\ r.expires_at > cx.clock}
         IN  IF found = {} THEN None
             ELSE LET row == CHOOSE r \in found : TRUE
                      result_data == IF cx.decoded THEN json_loads(row.result_data)
                                     ELSE row.result_data
                  IN  IF ~Truthy(result_data) THEN None
                      ELSE IF isinstance_str(result_data) THEN json_loads(result_data)
                      ELSE result_data

\* the statement with DO UPDATE SET result_data alone
Upsert_KeepsExpiry(rows, query_type, query_value, data, expires) ==
    LET conflict(r) == r.query_type = query_type /\ r.query_value = query_value
    IN  IF \E r \in rows : conflict(r)
        THEN {IF conflict(r) THEN [r EXCEPT !.result_data = data] ELSE r : r \in rows}
        ELSE rows \cup {[query_type |-> query_type, query_value |-> query_value,
                         result_data |-> data, expires_at |-> expires,
                         source |-> "simulation"]}

\* INSERT ... ON CONFLICT (query_type, query_value) DO UPDATE SET result_data, expires_at
Upsert(rows, query_type, query_value, data, expires) ==
    LET conflict(r) == r.query_type = query_type /\ r.query_value = query_value
    IN  IF \E r \in rows : conflict(r)
        THEN {IF conflict(r)
              THEN [r EXCEPT !.result_data = data, !.expires_at = expires]
              ELSE r : r \in rows}
        ELSE rows \cup {[query_type |-> query_type, query_value |-> query_value,
                         result_data |-> data, expires_at |-> expires,
                         source |-> "simulation"]}

\* the rows after the call; a store that raises keeps what it had
_cache_data(cx, query_type, query_value, data) ==
    IF ~cx.db THEN cx.rows
    ELSE IF cx.write_raises THEN cx.rows
    ELSE Upsert(cx.rows, query_type, query_value, json_dumps(data),
                cx.clock + cache_duration)

----------------------------------------------------------------------------
(* The lookups.  Each returns  raised (an exception reached the caller),   *)
(* hit (the result came from the cache), result, rows (the table after     *)
(* the call) and payload (what the call handed to _cache_data, or None).   *)
(* X_miss is lookup X from the generation on, after a cache check that     *)
(* found nothing.                                                          *)

Raised(rows) ==
    [raised |-> TRUE, hit |-> FALSE, result |-> None, rows |-> rows, payload |-> None]
Hit(cached, rows) ==
    [raised |-> FALSE, hit |-> TRUE, result |-> cached, rows |-> rows, payload |-> None]
Returned(result, rows, payload) ==
    [raised |-> FALSE, hit |-> FALSE, result |-> result, rows |-> rows, payload |-> payload]

geolocation_miss(cx, ip) ==
    LET cache(gen) ==
            IF gen.raised THEN Raised(cx.rows)
            ELSE Returned(gen.data, _cache_data(cx, "geolocation", ip, gen.data), gen.data)
    IN  cache(_generate_geolocation(ip, cx.ip_hash, cx.k, cx.clock))

geolocation_lookup(cx, ip) ==
    LET serve(cached, generated) == IF Truthy(cached) THEN Hit(cached, cx.rows) ELSE generated
    IN  serve(_get_cached_data(cx, "geolocation", ip), geolocation_miss(cx, ip))

whois_miss(cx, domain) ==
    LET cache(data) == Returned(data, _cache_data(cx, "whois", domain, data), data)
    IN  cache(_generate_whois(domain, cx.k, cx.clock))

whois_lookup(cx, domain) ==
    LET serve(cached, generated) == IF Truthy(cached) THEN Hit(cached, cx.rows) ELSE generated
    IN  serve(_get_cached_data(cx, "whois", domain), whois_miss(cx, domain))

pdns_miss(cx, domain) ==
    LET cache(data) == Returned(data, _cache_data(cx, "pdns", domain, data), data)
    IN  cache(_generate_pdns(domain, cx.k, cx.clock))

pdns_lookup(cx, domain) ==
    LET serve(cached, generated) == IF Truthy(cached) THEN Hit(cached, cx.rows) ELSE generated
    IN  serve(_get_cached_data(cx, "pdns", domain), pdns_miss(cx, domain))

\* the record is written only for a hostname
reverse_dns_miss(cx, ip) ==
    LET cache(hostname, payload) ==
            IF hostname # None
            THEN Returned(hostname, _cache_data(cx, "reverse_dns", ip, payload), payload)
            ELSE Returned(hostname, cx.rows, None)
    IN  cache(_generate_reverse_dns(ip), [hostname |-> _generate_reverse_dns(ip).str])

\* a hit returns cached.get('hostname')
reverse_dns_lookup(cx, ip) ==
    LET serve(cached, generated) ==
            IF Truthy(cached)
            THEN Hit(IF "hostname" \in DOMAIN cached THEN PyStr(cached.hostname) ELSE None,
                     cx.rows)
            ELSE generated
    IN  serve(_get_cached_data(cx, "reverse_dns", ip), reverse_dns_miss(cx, ip))

shodan_miss(cx, ip) ==
    LET cache(gen) ==
            IF gen.raised THEN Raised(cx.rows)
            ELSE Returned(gen.data, _cache_data(cx, "shodan", ip, gen.data), gen.data)
    IN  cache(_generate_shodan(ip, cx.ip_hash, cx.k, cx.clock))

shodan_lookup(cx, ip) ==
    LET serve(cached, generated) == IF Truthy(cached) THEN Hit(cached, cx.rows) ELSE generated
    IN  serve(_get_cached_data(cx, "shodan", ip), shodan_miss(cx, ip))

\* the lookup of a query [tool, value]
Lookup(cx, query) ==
    CASE query.tool = "geolocation" -> geolocation_lookup(cx, query.value)
      [] query.tool = "whois" -> whois_lookup(cx, query.value)
      [] query.tool = "pdns" -> pdns_lookup(cx, query.value)
      [] query.tool = "reverse_dns" -> reverse_dns_lookup(cx, query.value)
      [] query.tool = "shodan" -> shodan_lookup(cx, query.value)

\* the same from the generation on
LookupMiss(cx, query) ==
    CASE query.tool = "geolocation" -> geolocation_miss(cx, query.value)
      [] query.tool = "whois" -> whois_miss(cx, query.value)
      [] query.tool = "pdns" -> pdns_miss(cx, query.value)
      [] query.tool = "reverse_dns" -> reverse_dns_miss(cx, query.value)
      [] query.tool = "shodan" -> shodan_miss(cx, query.value)

----------------------------------------------------------------------------
(* enrich_artifact.  It returns  raised, result and rows (the table after  *)
(* the call); a sub-lookup starts from the table the one before it left.   *)

\* the values of url artifacts
Urls ==
    {"http://secure-login.net/login", "https://malware-c2.badssl.com/",
     "ftp://example.org/x"}

\* the characters from position from up to the next "/"
HostRun(cs, from) ==
    LET stop == {j \in from..Len(cs) : cs[j] = "/"}
    IN  SubSeq(cs, from,
               IF stop = {} THEN Len(cs)
               ELSE (CHOOSE j \in stop : \A h \in stop : j <= h) - 1)

\* the position after "http://" or "https://" read at position i, 0 if neither is there
SchemeEnd(cs, i) ==
    IF startswith(SubSeq(cs, i, Len(cs)), Chars("https://")) THEN i + 8
    ELSE IF startswith(SubSeq(cs, i, Len(cs)), Chars("http://")) THEN i + 7
    ELSE 0

\* re.search(r'https?://([^/]+)', value): group 1 of the leftmost match,
\* None without a match
re_search(cs) ==
    LET starts == {i \in 1..Len(cs) :
                      SchemeEnd(cs, i) # 0 /\ HostRun(cs, SchemeEnd(cs, i)) # << >>}
    IN  IF starts = {} THEN None
        ELSE PyStr(Str(HostRun(cs, SchemeEnd(cs, CHOOSE i \in starts :
                                                    \A h \in starts : i <= h))))

HostOf == [u \in Urls |-> re_search(Chars(u))]

\* the service once lookup r has returned
After(cx, r) == [cx EXCEPT !.rows = r.rows]

EnrichResult(cx, artifact_type, value, enrichment, threat_indicators, rows) ==
    [raised |-> FALSE, rows |-> rows,
     result |-> [type |-> artifact_type, value |-> value, enrichment |-> enrichment,
                 threat_indicators |-> threat_indicators,
                 enriched_at |-> isoformat(cx.clock)]]

\* an enrichment dict without entries
NoEnrichment == << >>

enrich_ip(cx, value) ==
    LET finish(geo, rdns, shodan) ==
            IF shodan.raised THEN [raised |-> TRUE, rows |-> shodan.rows, result |-> None]
            ELSE EnrichResult(cx, "ip", value,
                     [geolocation |-> geo.result, reverse_dns |-> rdns.result,
                      shodan |-> shodan.result],
                     IF Get(geo.result, "is_malicious", FALSE)
                     THEN <<"IP is in known malicious range",
                            "Abuse confidence score: "
                                \o ToString(Get(geo.result, "abuse_confidence_score", 0))>>
                     ELSE << >>,
                     shodan.rows)
        third(geo, rdns) ==
            IF rdns.raised THEN [raised |-> TRUE, rows |-> rdns.rows, result |-> None]
            ELSE finish(geo, rdns, shodan_lookup(After(cx, rdns), value))
        second(geo) ==
            IF geo.raised THEN [raised |-> TRUE, rows |-> geo.rows, result |-> None]
            ELSE third(geo, reverse_dns_lookup(After(cx, geo), value))
    IN  second(geolocation_lookup(cx, value))

\* the indicators of a sub-result that says is_suspicious
SuspiciousIndicators(sub) ==
    IF Get(sub, "is_suspicious", FALSE) THEN Get(sub, "threat_indicators", << >>)
    ELSE << >>

\* the passive-DNS indicators alone
enrich_domain_PdnsOnly(cx, value) ==
    LET finish(whois, pdns) ==
            EnrichResult(cx, "domain", value,
                [whois |-> whois.result, pdns |-> pdns.result],
                SuspiciousIndicators(pdns.result), pdns.rows)
        second(whois) == finish(whois, pdns_lookup(After(cx, whois), value))
    IN  second(whois_lookup(cx, value))

enrich_domain(cx, value) ==
    LET finish(whois, pdns) ==
            EnrichResult(cx, "domain", value,
                [whois |-> whois.result, pdns |-> pdns.result],
                SuspiciousIndicators(whois.result) \o SuspiciousIndicators(pdns.result),
                pdns.rows)
        second(whois) == finish(whois, pdns_lookup(After(cx, whois), value))
    IN  second(whois_lookup(cx, value))

enrich_url(cx, value) ==
    LET finish(whois, pdns) ==
            EnrichResult(cx, "url", value,
                [domain |-> whois.result, pdns |-> pdns.result], << >>, pdns.rows)
        second(domain, whois) == finish(whois, pdns_lookup(After(cx, whois), domain))
        first(domain_match) ==
            IF domain_match = None
            THEN EnrichResult(cx, "url", value, NoEnrichment, << >>, cx.rows)
            ELSE second(domain_match.str, whois_lookup(cx, domain_match.str))
    IN  first(HostOf[value])

enrich_artifact(cx, artifact_type, value) ==
    CASE artifact_type = "ip" -> enrich_ip(cx, value)
      [] artifact_type = "domain" -> enrich_domain(cx, value)
      [] artifact_type = "url" -> enrich_url(cx, value)
      [] OTHER -> EnrichResult(cx, artifact_type, value, NoEnrichment, << >>, cx.rows)

----------------------------------------------------------------------------
(* Actions of the generation service and its route.  A caller works through *)
(* one request at a time (generate_scenario, generate_artifacts,            *)
(* generate_timeline, as the route does on lines 101-103) and holds what    *)
(* each call returned until the request is finished.                        *)

NoScenario ==
    [id |-> 0, difficulty |-> "", estimated_duration |-> 0, incident_type |-> "",
     template_id |-> 0]

\* request: the incident type the answered request asked for
NoResponse ==
    [status |-> 0, success |-> FALSE, error |-> "", data |-> NoData, request |-> ""]

\* db: the service has a store; fail_at: the statement that raised (0: none);
\* ok: the value returned
NoSave == [db |-> FALSE, fail_at |-> 0, ok |-> FALSE]

TemplateOf(scn) ==
    Templates[CHOOSE i \in DOMAIN Templates : Templates[i].id = scn.template_id]

GenInit ==
    /\ scenario = NoScenario
    /\ artifacts = << >>
    /\ timeline = << >>
    /\ response = NoResponse
    /\ store = EmptyStore
    /\ last = "idle"
    /\ save_call = NoSave

\* generate_scenario(template, difficulty) with a template the store supplied
GenerateScenario ==
    /\ last = "idle"
    /\ \E uuid \in ScenarioIdSample, t \in DOMAIN Templates,
          difficulty \in RequestDifficulties \cup {""} :
           scenario' = generate_scenario(uuid, Templates[t], difficulty)
    /\ response' = NoResponse
    /\ last' = "generate_scenario"
    /\ UNCHANGED <<artifacts, timeline, store, save_call, now, enrichVars, raceVars, abuseVars>>

\* generate_artifacts(scenario.id, template, difficulty)
GenerateArtifacts ==
    /\ last = "generate_scenario"
    /\ LET template == TemplateOf(scenario)
           n == _get_artifact_count_by_difficulty(scenario.difficulty)
           uuids == FreshUuids(ScenarioIdSample \cup StoredIds(store),
                               Len(template.base_artifacts) + n)
       IN  IF IterationRaises(template, "base_artifacts")
           THEN /\ artifacts' = artifacts
                /\ last' = "generate_artifacts_raised"
           ELSE /\ \E draws \in DrawSeqs(ArtifactDrawSample, n, MaxVariedArtifacts) :
                      artifacts' = generate_artifacts(scenario.id, template,
                                       scenario.difficulty, uuids, draws, now)
                /\ last' = "generate_artifacts"
    /\ UNCHANGED <<scenario, timeline, response, store, save_call, now, enrichVars, raceVars, abuseVars>>

\* generate_timeline(scenario.id, template, artifacts, difficulty)
GenerateTimeline ==
    /\ last = "generate_artifacts"
    /\ LET template == TemplateOf(scenario)
           used == ScenarioIdSample \cup StoredIds(store) \cup {a.id : a \in Range(artifacts)}
       IN  IF IterationRaises(template, "base_timeline")
           THEN /\ timeline' = timeline
                /\ last' = "generate_timeline_raised"
           ELSE /\ \E rnd \in TimelineRnd(template, scenario.difficulty) :
                      timeline' = generate_timeline(scenario.id, template, artifacts,
                                      scenario.difficulty, rnd,
                                      FreshUuids(used, Len(template.base_timeline)
                                                           + Len(rnd.noise)),
                                      now)
                /\ last' = "generate_timeline"
    /\ UNCHANGED <<scenario, artifacts, response, store, save_call, now, enrichVars, raceVars, abuseVars>>

\* the caller is done with the request and lets go of what it held
FinishRequest ==
    /\ last \in {"generate_timeline", "route_generate",
                 "generate_artifacts_raised", "generate_timeline_raised"}
    /\ scenario' = NoScenario
    /\ artifacts' = << >>
    /\ timeline' = << >>
    /\ last' = "idle"
    /\ UNCHANGED <<response, store, save_call, now, enrichVars, raceVars, abuseVars>>

\* POST /api/scenarios/generate
RouteGenerateScenario ==
    /\ last = "idle"
    /\ \E incident_type \in IncidentTypeInputs,
          db_raises \in (IF scenario_service_db THEN BOOLEAN ELSE {FALSE}) :
        LET t == get_template_by_type(scenario_service_db, db_raises, incident_type)
        IN  IF t = 0
            THEN /\ response' = [NotFoundResponse EXCEPT !.request = incident_type]
                 /\ store' = store
            ELSE IF Templates[t].none_fields # {}
            THEN /\ response' = [status |-> 500, success |-> FALSE, error |-> "TypeError",
                                 data |-> NoData, request |-> incident_type]
                 /\ store' = store
            ELSE \E difficulty \in RequestDifficulties :
                 LET template == Templates[t]
                     ids == FreshUuids(ScenarioIdSample \cup StoredIds(store), 1)
                     scn == generate_scenario(ids[1], template, difficulty)
                     n == _get_artifact_count_by_difficulty(difficulty)
                     used == ScenarioIdSample \cup StoredIds(store) \cup {ids[1]}
                     auuids == FreshUuids(used, Len(template.base_artifacts) + n)
                 IN  \E draws \in DrawSeqs(ArtifactDrawSample, n, MaxVariedArtifacts),
                        rnd \in TimelineRnd(template, difficulty) :
                         LET arts == generate_artifacts(scn.id, template, difficulty,
                                                        auuids, draws, now)
                             events == generate_timeline(scn.id, template, arts,
                                           difficulty, rnd,
                                           FreshUuids(used \cup Range(auuids),
                                               Len(template.base_timeline) + Len(rnd.noise)),
                                           now)
                             saved == save_scenario_to_db(scenario_service_db, store,
                                                          scn, arts, events, 0)
                         IN  /\ store' = saved.store
                             /\ response' =
                                  [status |-> 201, success |-> TRUE, error |-> "",
                                   data |-> [scenario_id |-> scn.id, artifacts |-> arts,
                                             timeline |-> events],
                                   request |-> incident_type]
    /\ last' = "route_generate"
    /\ UNCHANGED <<scenario, artifacts, timeline, save_call, now, enrichVars, raceVars, abuseVars>>

GenNext ==
    \/ GenerateScenario
    \/ GenerateArtifacts
    \/ GenerateTimeline
    \/ FinishRequest
    \/ RouteGenerateScenario

----------------------------------------------------------------------------------------------------------------------------------------
(* A caller of the service that saves what it generated.  The service may  *)
(* have been built with a store (db_session) or without; the store may     *)
(* raise on any statement of the save.  The caller holds one generated     *)
(* scenario at a time, generated with the random draws at fixed outcomes.  *)

\* how many scenarios the caller saves
MaxStored == 1

\* the generated scenarios the caller may hold when the store is st
HeldSample(st) ==
    LET held(uuid, template, difficulty, used) ==
            LET n == _get_artifact_count_by_difficulty(difficulty)
                build(scn, auuids, rnd) ==
                    LET make(arts) ==
                            [scenario |-> scn,
                             artifacts |-> arts,
                             timeline |->
                                 generate_timeline(scn.id, template, arts, difficulty, rnd,
                                     FreshUuids(used \cup Range(auuids),
                                         Len(template.base_timeline) + Len(rnd.noise)),
                                     now)]
                    IN  make(generate_artifacts(scn.id, template, difficulty, auuids,
                                 [j \in 1..n |-> CHOOSE d \in ArtifactDrawSample : d.critical],
                                 now))
            IN  build(generate_scenario(uuid, template, difficulty),
                      FreshUuids(used, Len(template.base_artifacts) + n),
                      CHOOSE r \in TimelineRnd(template, difficulty) :
                          /\ r.target_index = 1
                          /\ Len(r.noise) \in {0, NoiseCountMin}
                          /\ \A i \in DOMAIN r.noise : r.noise[i].minutes = 5)
    IN  { held(uuid, Templates[t], difficulty, ScenarioIdSample \cup StoredIds(st)) :
            uuid \in ScenarioIdSample \ StoredIds(st),
            t \in {i \in DOMAIN Templates : Templates[i].none_fields = {}},
            difficulty \in {BEGINNER, INTERMEDIATE} }

\* save_scenario_to_db(scenario, artifacts, timeline)
SaveScenarioToDb ==
    /\ last \in {"generate_timeline", "save_scenario_to_db"}
    /\ scenario.id \notin StoredIds(store)
    /\ \E db \in BOOLEAN :
       \E fail_at \in (IF db THEN 0..(Len(artifacts) + Len(timeline) + 2) ELSE {0}) :
           LET return(r) ==
                   /\ store' = r.store
                   /\ save_call' = [db |-> db, fail_at |-> fail_at, ok |-> r.ok]
           IN  return(save_scenario_to_db(db, store, scenario, artifacts, timeline, fail_at))
    /\ last' = "save_scenario_to_db"
    /\ UNCHANGED <<scenario, artifacts, timeline, response, now, enrichVars, raceVars, abuseVars>>

\* the caller generates its next scenario
NextScenario ==
    /\ last = "save_scenario_to_db"
    /\ Cardinality(store.scenarios) < MaxStored
    /\ \E h \in HeldSample(store) :
           /\ scenario' = h.scenario
           /\ artifacts' = h.artifacts
           /\ timeline' = h.timeline
    /\ last' = "generate_timeline"
    /\ UNCHANGED <<response, store, save_call, now, enrichVars, raceVars, abuseVars>>

SaveNext == SaveScenarioToDb \/ NextScenario

----------------
(* Actions of the enrichment service.  The cache table outlives the        *)
(* process; hash() of a str is drawn anew by every process                 *)
(* (PYTHONHASHSEED).  A behaviour follows one query.                       *)

Callers == {"a", "b"}

QuerySample ==
    {[tool |-> "geolocation", value |-> v] :
        v \in {"8.8.8.8", "185.220.101.42", "192.168.1.1", "2001:4860:4860::8888",
               "not-an-ip", "103.35.74.21", "fe80::1"}}
    \cup {[tool |-> "shodan", value |-> v] :
        v \in {"8.8.8.8", "192.168.1.1", "2001:4860:4860::8888", "185.220.101.42",
               "103.35.74.21"}}
    \cup {[tool |-> "reverse_dns", value |-> v] :
        v \in {"185.220.101.42", "192.168.1.1", "10.0.0.1", "2001:4860:4860::8888",
               "not-an-ip"}}
    \cup {[tool |-> "whois", value |-> v] :
        v \in {"malware-c2.badssl.com", "secure-login.net", "Evil-Test.com",
               "phish-bad.net", "example.org"}}
    \cup {[tool |-> "pdns", value |-> v] :
        v \in {"secure-login.net", "example.org", "malware-c2.badssl.com",
               "Evil-Test.com"}}

\* the artifacts the callers have enriched
ArtifactSample ==
    {[tool |-> "enrich_artifact", artifact_type |-> "ip", value |-> v] :
        v \in {"185.220.101.42", "8.8.8.8", "192.168.1.1", "2001:4860:4860::8888",
               "not-an-ip"}}
    \cup {[tool |-> "enrich_artifact", artifact_type |-> "domain", value |-> v] :
        v \in {"malware-c2.badssl.com", "secure-login.net", "example.org",
               "Evil-Test.com"}}
    \cup {[tool |-> "enrich_artifact", artifact_type |-> "url", value |-> v] : v \in Urls}

\* outcomes of hash(value), one per process
HashSample == {-1234567, 7654321}

\* the clock moves in steps of half the cache duration
TickMinutes == cache_duration \div 2

\* the rows of the query the callers make
KeyRows ==
    {r \in enriched_data_cache :
        r.query_type = focus.tool /\ r.query_value = focus.value}

\* fault: which store calls of the lookup raised ("no_store": self.db unset);
\* after_failed_write: the lookup before this one had its cache write fail;
\* stale: the lookup began with an expired record of its query in the table
NoCall ==
    [done |-> FALSE, raised |-> FALSE, hit |-> FALSE, result |-> None,
     fault |-> "none", after_failed_write |-> FALSE, stale |-> FALSE]

NoWrite == [data |-> None, expires_at |-> 0]

\* what a call of CacheService or of an AbuseIPDB route met and answered:
\* at is the clock of the call, api_failed that the AbuseIPDB API gave an
\* error, found what refresh_ip returned, entry what get_cached_ip returned
\* or the route served, status, source, warning and error the route's answer
NoReply ==
    [op |-> "", ip |-> "", at |-> 0, force_refresh |-> FALSE, api_failed |-> FALSE,
     found |-> FALSE, entry |-> None, status |-> 0, source |-> "", warning |-> "",
     error |-> ""]

\* no AbuseIPDB lookup is made
AbuseIdle ==
    /\ abuseipdb_cache = {}
    /\ reply = NoReply

RaceIdle ==
    /\ pc = [c \in Callers |-> "idle"]
    /\ answer = [c \in Callers |-> NoCall]
    /\ raced = FALSE

\* no enrichment call is made
EnrichIdle ==
    /\ enriched_data_cache = {}
    /\ investigation_db = FALSE
    /\ process_hash = 0
    /\ focus = [tool |-> "", value |-> ""]
    /\ call = NoCall
    /\ lastWrite = NoWrite
    /\ RaceIdle
    /\ AbuseIdle

EnrichInit ==
    /\ now = 0
    /\ GenInit
    /\ enriched_data_cache = {}
    /\ investigation_db \in BOOLEAN
    /\ process_hash \in HashSample
    /\ focus \in QuerySample \cup ArtifactSample
    /\ call = NoCall
    /\ lastWrite = NoWrite
    /\ RaceIdle
    /\ AbuseIdle

Context(k, read_raises, write_raises, decoded) ==
    [db |-> investigation_db, rows |-> enriched_data_cache, clock |-> now,
     ip_hash |-> process_hash, k |-> k, read_raises |-> read_raises,
     write_raises |-> write_raises, decoded |-> decoded]

FaultOf(r, read_raises, write_raises) ==
    LET write_failed == write_raises /\ r.payload # None
    IN  CASE ~investigation_db -> "no_store"
          [] read_raises /\ write_failed -> "both"
          [] read_raises -> "read"
          [] write_failed -> "write"
          [] OTHER -> "none"

\* the write the store took, as the caller meant it
WriteOf(r, write_raises) ==
    IF investigation_db /\ ~write_raises /\ r.payload # None
    THEN [data |-> r.payload, expires_at |-> now + cache_duration]
    ELSE lastWrite

\* one lookup of the query, from the cache check to the return.  The form
\* of the column is an input of a read that returns, the random draws and
\* the outcome of the write are inputs of a call that gets past the cache.
LookupCall ==
    /\ focus \in QuerySample
    /\ \E read_raises \in (IF investigation_db THEN BOOLEAN ELSE {FALSE}) :
       \E decoded \in (IF investigation_db /\ ~read_raises THEN BOOLEAN ELSE {FALSE}) :
       LET cached == _get_cached_data(Context(1, read_raises, FALSE, decoded),
                                      focus.tool, focus.value)
       IN
       \E k \in (IF Truthy(cached) THEN {1} ELSE 1..RandSamples),
          write_raises \in (IF investigation_db /\ ~Truthy(cached) THEN BOOLEAN
                            ELSE {FALSE}) :
        LET return(r) ==
                /\ enriched_data_cache' = r.rows
                /\ call' = [done |-> TRUE, raised |-> r.raised, hit |-> r.hit,
                            result |-> r.result,
                            fault |-> FaultOf(r, read_raises, write_raises),
                            after_failed_write |-> call.fault \in {"write", "both"},
                            stale |-> \E row \in KeyRows : row.expires_at <= now]
                /\ lastWrite' = WriteOf(r, write_raises)
        IN  return(Lookup(Context(k, read_raises, write_raises, decoded), focus))
    /\ UNCHANGED <<now, investigation_db, process_hash, focus, genVars, raceVars, abuseVars>>

\* time passes
Tick ==
    /\ now < MaxTicks * TickMinutes
    /\ now' = now + TickMinutes
    /\ UNCHANGED <<genVars, enrichVars, raceVars, abuseVars>>

\* the service runs in a new process; the cache table stays
Restart ==
    /\ process_hash' \in HashSample \ {process_hash}
    /\ UNCHANGED <<now, enriched_data_cache, investigation_db, focus, call, lastWrite,
                   genVars, raceVars, abuseVars>>

\* one call of enrich_artifact; the store behaves the same way for every
\* sub-lookup of the call
EnrichArtifactCall ==
    /\ focus \in ArtifactSample
    /\ \E k \in 1..RandSamples,
          read_raises \in (IF investigation_db THEN BOOLEAN ELSE {FALSE}),
          write_raises \in (IF investigation_db THEN BOOLEAN ELSE {FALSE}) :
       \E decoded \in (IF investigation_db /\ ~read_raises THEN BOOLEAN ELSE {FALSE}) :
        LET return(r) ==
                /\ enriched_data_cache' = r.rows
                /\ call' = [done |-> TRUE, raised |-> r.raised, hit |-> FALSE,
                            result |-> r.result,
                            fault |-> CASE ~investigation_db -> "no_store"
                                        [] read_raises /\ write_raises -> "both"
                                        [] read_raises -> "read"
                                        [] write_raises -> "write"
                                        [] OTHER -> "none",
                            after_failed_write |-> call.fault \in {"write", "both"},
                            stale |-> FALSE]
        IN  return(enrich_artifact(Context(k, read_raises, write_raises, decoded),
                                   focus.artifact_type, focus.value))
    /\ UNCHANGED <<now, investigation_db, process_hash, focus, lastWrite, genVars, raceVars, abuseVars>>

\* geolocation_lookup or shodan_lookup called on its own, by its route, for
\* the address the enrich_artifact calls are about: a first lookup, which
\* finds no record of its query, against a store that works
OwnLookupCall ==
    /\ focus \in ArtifactSample
    /\ focus.artifact_type = "ip"
    /\ investigation_db
    /\ \E tool \in {"geolocation", "shodan"} :
           /\ ~\E r \in enriched_data_cache :
                   r.query_type = tool /\ r.query_value = focus.value
           /\ enriched_data_cache' =
                  Lookup(Context(1, FALSE, FALSE, FALSE),
                         [tool |-> tool, value |-> focus.value]).rows
    /\ UNCHANGED <<now, investigation_db, process_hash, focus, call, lastWrite,
                   genVars, raceVars, abuseVars>>

EnrichNext ==
    \/ LookupCall
    \/ EnrichArtifactCall
    \/ Tick
    \/ Restart

EnrichSpec == EnrichInit /\ [][EnrichNext]_vars

\* enrich_artifact calls for a public address, mixed with lookups of the
\* address made through the lookups' own routes, against a store
MixedInit ==
    /\ EnrichInit
    /\ investigation_db
    /\ focus \in ArtifactSample
    /\ focus.artifact_type = "ip"
    /\ focus.value \in {"8.8.8.8", "185.220.101.42"}

MixedNext ==
    \/ EnrichArtifactCall
    \/ OwnLookupCall
    \/ Tick
    \/ Restart

MixedSpec == MixedInit /\ [][MixedNext]_vars

----------------------------------------------------------------------------
(* Two callers look the same query up at the same time, against a store    *)
(* that works; each step is what a caller does between two store calls.    *)

RaceQuerySample ==
    {q \in QuerySample : q.value \in {"8.8.8.8", "2001:4860:4860::8888", "192.168.1.1",
                                       "secure-login.net", "185.220.101.42"}}

RaceInit ==
    /\ now = 0
    /\ GenInit
    /\ enriched_data_cache = {}
    /\ investigation_db = TRUE
    /\ process_hash \in HashSample
    /\ focus \in RaceQuerySample
    /\ call = NoCall
    /\ lastWrite = NoWrite
    /\ RaceIdle
    /\ AbuseIdle

AnswerOf(r) ==
    [done |-> TRUE, raised |-> r.raised, hit |-> r.hit, result |-> r.result,
     fault |-> "none", after_failed_write |-> FALSE,
     stale |-> \E row \in KeyRows : row.expires_at <= now]

\* the cache check; a hit returns at once
CacheCheck(c) ==
    /\ pc[c] = "idle"
    /\ \E decoded \in BOOLEAN :
        LET cx == Context(1, FALSE, FALSE, decoded)
            cached == _get_cached_data(cx, focus.tool, focus.value)
        IN  IF Truthy(cached)
            THEN /\ answer' = [answer EXCEPT ![c] = AnswerOf(Lookup(cx, focus))]
                 /\ pc' = [pc EXCEPT ![c] = "done"]
                 /\ raced' = raced
            ELSE /\ answer' = answer
                 /\ pc' = [pc EXCEPT ![c] = "checked"]
                 /\ raced' = (raced \/ \E d \in Callers \ {c} : pc[d] = "checked")
    /\ UNCHANGED <<now, enrichVars, genVars, abuseVars>>

\* the generation, the cache write and the return
GenerateAndCache(c) ==
    /\ pc[c] = "checked"
    /\ \E k \in 1..RandSamples :
        LET return(r) ==
                /\ enriched_data_cache' = r.rows
                /\ answer' = [answer EXCEPT ![c] = AnswerOf(r)]
                /\ lastWrite' = WriteOf(r, FALSE)
        IN  return(LookupMiss(Context(k, FALSE, FALSE, FALSE), focus))
    /\ pc' = [pc EXCEPT ![c] = "done"]
    /\ UNCHANGED <<now, investigation_db, process_hash, focus, call, raced, genVars,
                   abuseVars>>

RaceNext ==
    \/ \E c \in Callers : CacheCheck(c)
    \/ \E c \in Callers : GenerateAndCache(c)
    \/ Tick

RaceSpec == RaceInit /\ [][RaceNext]_vars

----------------------------------------------------------------------------
(* The AbuseIPDB cache, CacheService (backend/services/cache_service.py),  *)
(* its model AbuseIPDBCache (backend/models/abuseipdb_cache.py) and the    *)
(* check and refresh routes (backend/routes/abuseipdb.py).  A row keeps    *)
(* ip, abuse_confidence_score, cached_at and expires_at; the other columns *)
(* are copies of API fields that no decision reads.                        *)

\* ttl_hours of the check route, in hours
ttl_hours == 24

\* timedelta(hours=n), in minutes
hours(n) == n * 60

\* AbuseIPDBCache.is_expired at clock
is_expired(cache_entry, clock) == clock > cache_entry.expires_at

\* AbuseIPDBCache.query.filter_by(ip=ip).first(): the row or None (ip is unique)
FirstByIp(rows, ip) ==
    IF \E r \in rows : r.ip = ip THEN CHOOSE r \in rows : r.ip = ip ELSE None

\* CacheService.get_cached_ip
get_cached_ip(rows, ip, clock) ==
    LET found(cache_entry) ==
            IF cache_entry # None /\ ~is_expired(cache_entry, clock)
            THEN cache_entry
            ELSE None
    IN  found(FirstByIp(rows, ip))

\* CacheService.set_cached_ip: the table after the call
set_cached_ip(rows, ip, data, ttl, clock) ==
    {r \in rows : r.ip # ip}
        \cup {[ip |-> ip,
               abuse_confidence_score |-> data.abuseConfidencePercentage,
               cached_at |-> clock,
               expires_at |-> clock + hours(ttl)]}

\* CacheService.refresh_ip: what it returned and the table after the call
refresh_ip(rows, ip, clock) ==
    LET mark(cache_entry) ==
            IF cache_entry # None
            THEN [found |-> TRUE,
                  rows |-> (rows \ {cache_entry})
                               \cup {[cache_entry EXCEPT !.expires_at = clock]}]
            ELSE [found |-> FALSE, rows |-> rows]
    IN  mark(FirstByIp(rows, ip))

\* validate_ip_address
validate_ip_address(ip) == AddressOf[ip].ok

\* what AbuseIPDBService.check_ip hands to the route: error "" is None;
\* has_data: the body has the key 'data'
ApiSample ==
    {[error |-> "", has_data |-> TRUE, abuseConfidencePercentage |-> 0],
     [error |-> "", has_data |-> TRUE, abuseConfidencePercentage |-> 75],
     [error |-> "", has_data |-> FALSE, abuseConfidencePercentage |-> 0],
     [error |-> "API request failed", has_data |-> FALSE, abuseConfidencePercentage |-> 0]}

\* the addresses the routes are asked about
IpSample == {"8.8.8.8", "185.220.101.42", "not-an-ip"}

\* the check route: its answer and the table after it
check_ip(rows, ip, force_refresh, api, clock) ==
    LET jsonify(status, source, entry, warning, error, table) ==
            [status |-> status, source |-> source, entry |-> entry,
             warning |-> warning, error |-> error, rows |-> table]
        cached == get_cached_ip(rows, ip, clock)
    IN  IF ~validate_ip_address(ip)
        THEN jsonify(400, "", None, "", "Invalid IP address format", rows)
        ELSE IF ~force_refresh /\ cached # None
        THEN jsonify(200, "cache", cached, "", "", rows)
        ELSE IF api.error # ""
        THEN IF ~force_refresh /\ cached # None
             THEN jsonify(200, "cache", cached,
                         "Returning expired cache due to API error", "", rows)
             ELSE jsonify(500, "", None, "", api.error, rows)
        ELSE jsonify(200, "api", None, "", "",
                    IF api.has_data THEN set_cached_ip(rows, ip, api, ttl_hours, clock)
                    ELSE rows)

\* GET /api/abuseipdb/check
CheckIp ==
    \E ip \in IpSample, force_refresh \in BOOLEAN, api \in ApiSample :
        LET a == check_ip(abuseipdb_cache, ip, force_refresh, api, now)
        IN  /\ abuseipdb_cache' = a.rows
            /\ reply' = [op |-> "check_ip", ip |-> ip, at |-> now,
                         force_refresh |-> force_refresh,
                         api_failed |->
                             /\ validate_ip_address(ip)
                             /\ force_refresh \/ get_cached_ip(abuseipdb_cache, ip, now) = None
                             /\ api.error # "",
                         found |-> FALSE, entry |-> a.entry, status |-> a.status,
                         source |-> a.source, warning |-> a.warning, error |-> a.error]
            /\ UNCHANGED <<now, genVars, enrichVars, raceVars>>

\* POST /api/abuseipdb/refresh
RefreshIp ==
    \E ip \in IpSample :
        LET valid == validate_ip_address(ip)
            refreshed == refresh_ip(abuseipdb_cache, ip, now)
        IN  /\ abuseipdb_cache' = IF valid THEN refreshed.rows ELSE abuseipdb_cache
            /\ reply' = [NoReply EXCEPT
                           !.op = "refresh_ip", !.ip = ip, !.at = now,
                           !.found = valid /\ refreshed.found,
                           !.status = IF ~valid THEN 400
                                      ELSE IF refreshed.found THEN 200 ELSE 404,
                           !.error = IF ~valid THEN "Invalid IP address format"
                                     ELSE IF refreshed.found THEN ""
                                     ELSE "IP not found in cache"]
            /\ UNCHANGED <<now, genVars, enrichVars, raceVars>>

\* a direct call of CacheService.get_cached_ip
GetCachedIp ==
    \E ip \in IpSample :
        /\ reply' = [NoReply EXCEPT
                       !.op = "get_cached_ip", !.ip = ip, !.at = now,
                       !.entry = get_cached_ip(abuseipdb_cache, ip, now)]
        /\ UNCHANGED <<abuseipdb_cache, now, genVars, enrichVars, raceVars>>

AbuseNext ==
    \/ CheckIp
    \/ RefreshIp
    \/ GetCachedIp
    \/ Tick

----------------------------------------------------------------------------
(* The specifications *)

Init == GenInit /\ EnrichIdle /\ now = 0

Next == GenNext

Spec == Init /\ [][Next]_vars

\* the caller holds its first generated scenario
SaveInit ==
    /\ now = 0
    /\ EnrichIdle
    /\ store = EmptyStore
    /\ response = NoResponse
    /\ save_call = NoSave
    /\ last = "generate_timeline"
    /\ \E h \in HeldSample(EmptyStore) :
           /\ scenario = h.scenario
           /\ artifacts = h.artifacts
           /\ timeline = h.timeline

SaveSpec == SaveInit /\ [][SaveNext]_vars

AbuseSpec == Init /\ [][AbuseNext]_vars

----------------------------------------------------------------------------
(* Claims about scenario generation, checked under Spec *)

Generated == last = "generate_timeline"

\* a base event carries a source port, a noise event none
IsBaseEvent(e) == e.source_port # NonePort
IsNoiseEvent(e) == e.source_port = NonePort

\* the position in the template's base timeline of a base event, from its timestamp
BaseIndexOf(e) == ((e.timestamp - (now - 120)) \div 5) + 1

\* C1: every event of the timeline generate_timeline returned, base or noise,
\* references only ids of the artifacts that were passed in
C1_ArtifactIdsSubset ==
    \A i \in DOMAIN timeline :
        Range(timeline[i].artifact_ids) \subseteq {UuidStr(a.id) : a \in Range(artifacts)}

C1_Witness ==
    /\ Generated
    /\ \E i \in DOMAIN timeline :
           IsBaseEvent(timeline[i]) /\ Len(timeline[i].artifact_ids) >= 2
    /\ \E i \in DOMAIN timeline : IsNoiseEvent(timeline[i])

\* C2: the returned timeline is sorted by non-decreasing timestamp, noise
\* events merged in and ties with base events included
C2_SortedByTimestamp ==
    \A i \in 1..(Len(timeline) - 1) : timeline[i].timestamp <= timeline[i + 1].timestamp

C2_Witness ==
    /\ Generated
    /\ scenario.difficulty \in {INTERMEDIATE, ADVANCED}
    /\ \E i, j \in DOMAIN timeline :
           /\ i < j
           /\ IsNoiseEvent(timeline[i]) /\ IsBaseEvent(timeline[j])
           /\ timeline[i].timestamp < timeline[j].timestamp
    /\ \E i, j \in DOMAIN timeline :
           /\ IsNoiseEvent(timeline[i]) /\ IsBaseEvent(timeline[j])
           /\ timeline[i].timestamp = timeline[j].timestamp

\* the incident type has no active template in the store
NoActiveTemplate(incident_type) ==
    ~ \E i \in DOMAIN Templates :
          Templates[i].incident_type = incident_type /\ Templates[i].is_active

\* C7: a generate-scenario request for an incident type without active
\* template is answered 404 (not a success, not a server error), and nothing
\* is generated or persisted for it
C7_TemplateNotFound404 ==
    (last = "route_generate" /\ NoActiveTemplate(response.request)) =>
        /\ response.status = 404
        /\ ~response.success
        /\ response.data = NoData
        /\ store = EmptyStore

\* the priority the law of the claim gives for base priority b
LawPriority(b, difficulty) ==
    CASE difficulty = BEGINNER -> IF b + 1 < 3 THEN b + 1 ELSE 3
      [] difficulty = ADVANCED -> IF b - 1 > 1 THEN b - 1 ELSE 1
      [] difficulty = INTERMEDIATE -> b

\* C8: a base event of base priority b in {1,2,3} (2 when the descriptor has
\* none) gets priority min(b+1,3) for beginner, max(b-1,1) for advanced and b
\* for intermediate
C8_PriorityLaw ==
    (Generated /\ scenario.difficulty \in {BEGINNER, INTERMEDIATE, ADVANCED}) =>
        LET base == TemplateOf(scenario).base_timeline
        IN  /\ Cardinality({i \in DOMAIN timeline : IsBaseEvent(timeline[i])}) = Len(base)
            /\ \A i \in DOMAIN timeline :
                   IsBaseEvent(timeline[i]) =>
                       LET k == BaseIndexOf(timeline[i])
                           b == IF "priority" \in DOMAIN base[k] THEN base[k].priority ELSE 2
                       IN  /\ b \in {1, 2, 3}
                           /\ timeline[i].priority = LawPriority(b, scenario.difficulty)

\* an advanced timeline whose base priorities 1, 3 and the default became 1, 2, 1
C8_Witness ==
    /\ Generated
    /\ scenario.difficulty = ADVANCED
    /\ Len(TemplateOf(scenario).base_timeline) = 3
    /\ \E i, j, k \in DOMAIN timeline :
           /\ IsBaseEvent(timeline[i]) /\ BaseIndexOf(timeline[i]) = 1
           /\ timeline[i].priority = 1
           /\ IsBaseEvent(timeline[j]) /\ BaseIndexOf(timeline[j]) = 2
           /\ timeline[j].priority = 2
           /\ IsBaseEvent(timeline[k]) /\ BaseIndexOf(timeline[k]) = 3
           /\ timeline[k].priority = 1

\* the number of additional artifacts the claim gives per difficulty
LawAdditional(difficulty) ==
    CASE difficulty = BEGINNER -> 3
      [] difficulty = INTERMEDIATE -> 5
      [] difficulty = ADVANCED -> 10

\* C9: generate_artifacts returns the base artifacts in template order
\* followed by n additional ones, n = 3, 5, 10 for beginner, intermediate,
\* advanced
C9_ArtifactCount ==
    (last \in {"generate_artifacts", "generate_timeline"}
        /\ scenario.difficulty \in {BEGINNER, INTERMEDIATE, ADVANCED}) =>
        LET base == TemplateOf(scenario).base_artifacts
            nb == Len(base)
            n == LawAdditional(scenario.difficulty)
        IN  /\ Len(artifacts) = nb + n
            /\ \A i \in 1..nb :
                   /\ i <= Len(artifacts)
                   /\ artifacts[i].metadata = << >>
                   /\ artifacts[i].value = (IF "value" \in DOMAIN base[i] THEN base[i].value ELSE "")
                   /\ artifacts[i].type = (IF "type" \in DOMAIN base[i] THEN base[i].type ELSE "ip")
            /\ \A j \in (nb + 1)..Len(artifacts) :
                   artifacts[j].metadata \in {[type |-> "benign"], [type |-> "malicious"]}
            /\ LawAdditional(BEGINNER) < LawAdditional(INTERMEDIATE)
            /\ LawAdditional(INTERMEDIATE) < LawAdditional(ADVANCED)

C9_Witness ==
    /\ last = "generate_artifacts"
    /\ scenario.difficulty = ADVANCED
    /\ Len(TemplateOf(scenario).base_artifacts) = 3
    /\ Len(artifacts) = 13

----------------------------------------------------------------------------
(* Claims about the enrichment cache, checked under EnrichSpec and RaceSpec *)

\* the tools whose lookup returns the cached payload itself
PayloadTools == {"geolocation", "whois", "pdns", "shodan"}

\* a step in which a lookup completed (one that changed nothing is a stutter)
LookupStep == call' # call \/ enriched_data_cache' # enriched_data_cache

\* what a lookup that returned result hands to the store
StoredForm(result) ==
    IF focus.tool = "reverse_dns" THEN [hostname |-> result.str] ELSE result

\* C3: with a working cache, once a lookup of geolocation, whois, pdns or
\* shodan has stored a payload for (type, value), a later lookup of the same
\* (type, value) before the record's expires_at returns exactly the stored
\* payload and neither regenerates it nor rewrites the record.
C3_CachedPayloadReturned ==
    [][ ( /\ focus.tool \in PayloadTools
          /\ lastWrite # NoWrite
          /\ \E r \in KeyRows : now < r.expires_at
          /\ LookupStep
          /\ call'.fault = "none" )
        => ( /\ call'.hit
             /\ ~call'.raised
             /\ call'.result = lastWrite.data
             /\ enriched_data_cache' = enriched_data_cache
             /\ lastWrite' = lastWrite ) ]_vars

\* a lookup answered from a record stored at an earlier time, in another process
C3_Witness ==
    /\ focus.tool \in PayloadTools
    /\ call.done /\ call.hit /\ call.fault = "none"
    /\ call.result = lastWrite.data
    /\ now < lastWrite.expires_at
    /\ now + cache_duration > lastWrite.expires_at

\* C4: the cache read returns a record only while now < expires_at; a record
\* whose expires_at is equal to or earlier than now is absent for the next
\* lookup, which regenerates a payload and replaces the record under the same
\* (query_type, query_value) key with expires_at = now + 24h.
C4_ExpiredRecordReplaced ==
    [][ /\ (LookupStep /\ call'.hit) => \E r \in KeyRows : now < r.expires_at
        /\ ( /\ LookupStep
             /\ call'.fault = "none"
             /\ KeyRows # {}
             /\ \A r \in KeyRows : r.expires_at <= now )
           => ( /\ ~call'.hit
                /\ ~call'.raised
                /\ Cardinality(KeyRows') = 1
                /\ \A r \in KeyRows' :
                      /\ r.expires_at = now + cache_duration
                      /\ json_loads(r.result_data) = StoredForm(call'.result) ) ]_vars

\* a lookup that found its record expired and wrote the new one
C4_Witness ==
    /\ call.done /\ call.stale /\ call.fault = "none"
    /\ ~call.hit /\ ~call.raised
    /\ \E r \in KeyRows :
          /\ r.expires_at = now + cache_duration
          /\ json_loads(r.result_data) = StoredForm(call.result)

\* a complete result of the query: the payload of the value asked for (a
\* reverse DNS lookup returns a hostname or None)
Complete(query, result) ==
    CASE query.tool \in {"geolocation", "shodan"} ->
            "ip" \in DOMAIN result /\ result.ip = query.value
      [] query.tool \in {"whois", "pdns"} ->
            "domain" \in DOMAIN result /\ result.domain = query.value
      [] OTHER -> TRUE

C6_CacheFailureIsolated ==
    (call.done /\ (call.fault # "none" \/ call.after_failed_write)) =>
        (~call.raised /\ Complete(focus, call.result))

\* C10: any two calls of geolocation_lookup for an IP return the same
\* country_code, country_name and is_malicious, whether the later one is
\* served from the cache, regenerated without a cache or regenerated after
\* the record expired (stated of each call and the one before it).
C10_GeolocationIdempotent ==
    [][ ( /\ focus.tool = "geolocation"
          /\ call.done /\ ~call.raised
          /\ call'.done /\ ~call'.raised )
        => ( /\ call'.result.country_code = call.result.country_code
             /\ call'.result.country_name = call.result.country_name
             /\ call'.result.is_malicious = call.result.is_malicious ) ]_vars

----------------------------------------------------------------------------
(* Claims about what the lookups answer *)

\* the /16 ranges of known malicious addresses, read off the octets
LawInRanges(ip) ==
    /\ AddressOf[ip].ok
    /\ AddressOf[ip].version = 4
    /\ <<AddressOf[ip].words[1], AddressOf[ip].words[2]>>
           \in {<<185, 220>>, <<91, 219>>, <<45, 227>>}

LawPublic(ip) == AddressOf[ip].ok /\ ~AddressOf[ip].is_private

GeolocationAnswered == call.done /\ ~call.raised /\ focus.tool = "geolocation"

\* C11: geolocation_lookup of an IP classified known malicious yields
\* is_malicious true, threat_level high and abuse_confidence_score in
\* 50..100; of a public IP not classified malicious it yields is_malicious
\* false, threat_level low and abuse_confidence_score in 0..30.
C11_MaliciousFields ==
    (GeolocationAnswered /\ LawPublic(focus.value)) =>
        IF LawInRanges(focus.value)
        THEN /\ call.result.is_malicious
             /\ call.result.threat_level = "high"
             /\ call.result.abuse_confidence_score \in 50..100
        ELSE /\ ~call.result.is_malicious
             /\ call.result.threat_level = "low"
             /\ call.result.abuse_confidence_score \in 0..30

C11_Witness ==
    /\ GeolocationAnswered
    /\ focus.value = "185.220.101.42"
    /\ call.hit
    /\ call.result.is_malicious
    /\ call.result.abuse_confidence_score = 100

PrivateSample == {"192.168.1.1", "10.0.0.1", "fe80::1"}

PrivateGeolocation(ip) ==
    [ip |-> ip, country_code |-> "XX", country_name |-> "Private Network",
     city |-> "Internal Network", latitude |-> 0, longitude |-> 0,
     isp |-> "Internal", as_number |-> "Private", as_name |-> "Private Network",
     is_private |-> TRUE, is_malicious |-> FALSE, usage_type |-> "Internal",
     threat_level |-> "none"]

PrivateShodan(result) ==
    /\ result.is_private
    /\ "error" \in DOMAIN result
    /\ DOMAIN result \cap {"ports", "vulnerabilities", "hostnames"} = {}

\* C12: for a private IP address geolocation_lookup returns the fixed
\* payload (is_private, country_code XX, not malicious, threat_level none),
\* shodan_lookup an error payload with is_private and no port data, and
\* reverse_dns_lookup no hostname, on the first call and on every later one.
C12_PrivateAddress ==
    (call.done /\ focus.value \in PrivateSample) =>
        /\ ~call.raised
        /\ CASE focus.tool = "geolocation" ->
                    call.result = PrivateGeolocation(focus.value)
             [] focus.tool = "shodan" -> PrivateShodan(call.result)
             [] focus.tool = "reverse_dns" -> call.result = None
             [] focus.tool = "enrich_artifact" ->
                    /\ call.result.enrichment.geolocation = PrivateGeolocation(focus.value)
                    /\ PrivateShodan(call.result.enrichment.shodan)
                    /\ call.result.enrichment.reverse_dns = None
             [] OTHER -> TRUE

C12_Witness ==
    /\ call.done /\ call.hit
    /\ focus = [tool |-> "geolocation", value |-> "fe80::1"]
    /\ call.result.country_code = "XX"
    /\ now >= cache_duration

\* C13: whois_lookup of the known domain malware-c2.badssl.com returns the
\* canned record with registrar "NameCheap, Inc.", and the result is flagged
\* is_suspicious or has a threat_indicators field.
C13_KnownDomainFlagged ==
    (call.done /\ focus = [tool |-> "whois", value |-> "malware-c2.badssl.com"]) =>
        /\ ~call.raised
        /\ call.result.registrar = "NameCheap, Inc."
        /\ \/ Get(call.result, "is_suspicious", FALSE)
           \/ "threat_indicators" \in DOMAIN call.result

----------------------------------------------------------------------------
(* Claims about enrich_artifact *)

Enriched(artifact_type) ==
    /\ call.done
    /\ focus.tool = "enrich_artifact"
    /\ focus.artifact_type = artifact_type

\* the indicators a sub-result contributes: its own, when it says is_suspicious
LawIndicators(sub) ==
    IF "is_suspicious" \in DOMAIN sub /\ sub.is_suspicious /\ "threat_indicators" \in DOMAIN sub
    THEN sub.threat_indicators
    ELSE << >>

\* C14: enrich_artifact("domain", d) returns a whois and a pdns sub-object,
\* and its threat_indicators are the WHOIS indicators (when WHOIS marks d
\* suspicious) followed by the passive-DNS indicators (when passive DNS
\* marks d suspicious); for malware-c2.badssl.com the list is not empty.
C14_DomainEnrichment ==
    Enriched("domain") =>
        /\ ~call.raised
        /\ DOMAIN call.result.enrichment = {"whois", "pdns"}
        /\ call.result.enrichment.whois.domain = focus.value
        /\ call.result.enrichment.pdns.domain = focus.value
        /\ call.result.threat_indicators =
               LawIndicators(call.result.enrichment.whois)
                   \o LawIndicators(call.result.enrichment.pdns)
        /\ focus.value = "malware-c2.badssl.com" => call.result.threat_indicators # << >>

C14_Witness ==
    /\ Enriched("domain")
    /\ focus.value = "Evil-Test.com"
    /\ call.result.enrichment.whois.threat_indicators # << >>
    /\ call.result.enrichment.pdns.threat_indicators # << >>
    /\ Len(call.result.threat_indicators) =
           Len(call.result.enrichment.whois.threat_indicators)
               + Len(call.result.enrichment.pdns.threat_indicators)


\* the host portion of the sampled http and https URLs
LawHost ==
    [u \in {"http://secure-login.net/login", "https://malware-c2.badssl.com/"} |->
        IF u = "http://secure-login.net/login" THEN "secure-login.net"
        ELSE "malware-c2.badssl.com"]

\* the WHOIS sub-result of a URL enrichment, under whichever key holds it
UrlWhois(enrichment) ==
    IF "whois" \in DOMAIN enrichment THEN enrichment.whois ELSE enrichment.domain

\* C15: enrich_artifact("url", u) looks up the host of u as a domain: it
\* has the WHOIS and passive-DNS sub-results of the host, and its
\* threat_indicators are those enrich_artifact("domain", host) derives from
\* them, so a URL whose host is suspicious has a non-empty list.
C15_UrlAsDomain ==
    (Enriched("url") /\ focus.value \in DOMAIN LawHost) =>
        /\ ~call.raised
        /\ DOMAIN call.result.enrichment \cap {"whois", "domain"} # {}
        /\ "pdns" \in DOMAIN call.result.enrichment
        /\ UrlWhois(call.result.enrichment).domain = LawHost[focus.value]
        /\ call.result.enrichment.pdns.domain = LawHost[focus.value]
        /\ call.result.threat_indicators =
               LawIndicators(UrlWhois(call.result.enrichment))
                   \o LawIndicators(call.result.enrichment.pdns)
        /\ (\/ Get(UrlWhois(call.result.enrichment), "is_suspicious", FALSE)
            \/ call.result.enrichment.pdns.is_suspicious)
               => call.result.threat_indicators # << >>


\* the lookups that take an address
AddressLookup ==
    \/ focus.tool \in {"geolocation", "reverse_dns", "shodan"}
    \/ focus.tool = "enrich_artifact" /\ focus.artifact_type = "ip"

\* C16: geolocation_lookup, reverse_dns_lookup, shodan_lookup and
\* enrich_artifact("ip", v) return and never raise, whatever string v is:
\* a private or public IPv4 address, an IPv6 address, or a string that is
\* no address, which geolocation answers as neither private nor malicious.
C16_NeverRaises ==
    (call.done /\ AddressLookup) =>
        /\ ~call.raised
        /\ (focus.tool = "geolocation" /\ ~AddressOf[focus.value].ok) =>
               /\ ~call.result.is_malicious
               /\ call.result.country_code # "XX"


\* C17: an IP is classified known malicious exactly when it lies in one of
\* the ranges 185.220.0.0/16, 91.219.0.0/16, 45.227.0.0/16 or is in the
\* malicious-IP table; so geolocation_lookup and shodan_lookup answer
\* is_malicious = true for every IP of the pool malicious artifacts are
\* generated from.
C17_MaliciousExactly ==
    ( /\ call.done /\ ~call.raised
      /\ focus.tool \in {"geolocation", "shodan"}
      /\ LawPublic(focus.value) ) =>
        (call.result.is_malicious
            <=> (LawInRanges(focus.value) \/ focus.value \in Range(MALICIOUS_IPS)))


\* the keywords that make a domain suspicious
LawKeywords == {"malware", "c2", "phishing", "evil", "bad", "test", "secure"}

\* the keywords domain d contains, whatever its case
LawMatched(d) == LawKeywords \cap WithinOf[LowerOf[d]]

\* C18: a domain is suspicious exactly when it contains, in any case, one of
\* malware, c2, phishing, evil, bad, test, secure, and WHOIS and passive DNS
\* apply that one rule: for a domain without canned WHOIS record the
\* is_suspicious of whois_lookup and of pdns_lookup both say so, alone and
\* side by side in a domain enrichment.
C18_OneKeywordRule ==
    (call.done /\ ~call.raised /\ focus.value \notin DOMAIN WHOIS_DATA) =>
        CASE focus.tool \in {"whois", "pdns"} ->
                 call.result.is_suspicious = (LawMatched(focus.value) # {})
          [] Enriched("domain") ->
                 /\ call.result.enrichment.whois.is_suspicious = (LawMatched(focus.value) # {})
                 /\ call.result.enrichment.pdns.is_suspicious
                        = call.result.enrichment.whois.is_suspicious
          [] OTHER -> TRUE


\* the indicator of each keyword that has one of its own
LawSpecific ==
    [kw \in {"c2", "phishing", "malware", "test"} |->
        CASE kw = "c2" -> "Domain associated with C2 infrastructure"
          [] kw = "phishing" -> "Domain associated with phishing campaigns"
          [] kw = "malware" -> "Domain associated with malware distribution"
          [] kw = "test" -> "Test domain - potentially used for malicious testing"]

LawGeneric == "Domain pattern matches known malicious domains"

\* C19: the synthesized WHOIS record of a suspicious domain has one
\* indicator per suspicious keyword the domain matches, and the generic
\* indicator alone only when none of the matched keywords has an indicator
\* of its own; the record of a domain that is not suspicious has none.
C19_IndicatorPerKeyword ==
    ( /\ call.done /\ ~call.raised
      /\ focus.tool = "whois" /\ focus.value \notin DOMAIN WHOIS_DATA ) =>
        IF LawMatched(focus.value) = {}
        THEN call.result.threat_indicators = << >>
        ELSE IF LawMatched(focus.value) \cap DOMAIN LawSpecific = {}
        THEN call.result.threat_indicators = <<LawGeneric>>
        ELSE /\ Len(call.result.threat_indicators) = Cardinality(LawMatched(focus.value))
             /\ LawGeneric \notin Range(call.result.threat_indicators)
             /\ \A kw \in LawMatched(focus.value) \cap DOMAIN LawSpecific :
                    LawSpecific[kw] \in Range(call.result.threat_indicators)


\* the values of the records of one type
RecordValues(records, type) ==
    {records[i].value : i \in {j \in DOMAIN records : records[j].type = type}}

\* what a passive-DNS result holds for a domain that is, or is not, suspicious
LawPdns(result, suspicious) ==
    /\ \A type \in {"A", "MX", "NS", "TXT"} : RecordValues(result.records, type) # {}
    /\ IF suspicious
       THEN /\ RecordValues(result.records, "A")
                   \subseteq {"185.220.101.42", "91.219.236.166", "45.227.254.12"}
            /\ RecordValues(result.records, "AAAA") = {}
            /\ "v=spf1 -all" \in RecordValues(result.records, "TXT")
            /\ result.threat_indicators # << >>
       ELSE /\ RecordValues(result.records, "A")
                   \subseteq {"8.8.8.8", "1.1.1.1", "208.67.222.222"}
            /\ RecordValues(result.records, "AAAA") # {}
            /\ "v=spf1 -all" \notin RecordValues(result.records, "TXT")
            /\ result.threat_indicators = << >>

\* C20: every passive-DNS result has at least one A record and MX, NS and
\* TXT records; for a suspicious domain the A values are among
\* 185.220.101.42, 91.219.236.166, 45.227.254.12, there is no AAAA record,
\* the TXT record "v=spf1 -all" is present and threat_indicators is not
\* empty; for a benign domain the A values are among the benign three, an
\* AAAA record is present, "v=spf1 -all" is absent and threat_indicators is
\* empty.
C20_PdnsRecords ==
    (call.done /\ ~call.raised /\ focus.tool = "pdns") =>
        LawPdns(call.result, LawMatched(focus.value) # {})

----------------------------------------------------------------------------
(* Further claims about scenario generation, checked under Spec *)

\* the positions in the artifact list of the malicious ip-typed artifacts
LawMaliciousAt == {i \in DOMAIN artifacts : artifacts[i].type = "ip" /\ artifacts[i].is_malicious}

\* the source address the claim gives the base events
LawSourceIp ==
    IF LawMaliciousAt = {} THEN "185.220.101.42"
    ELSE artifacts[CHOOSE i \in LawMaliciousAt : \A j \in LawMaliciousAt : i <= j].value

\* C21: in one generate_timeline call every base event has the same
\* source_ip, the value of the first artifact of type ip with is_malicious,
\* or 185.220.101.42 when there is none; and every event of the timeline,
\* noise included, has one and the same destination_ip, a member of the
\* internal-target pool.
C21_OneSourceOneTarget ==
    Generated =>
        /\ \A i \in DOMAIN timeline :
               IsBaseEvent(timeline[i]) => timeline[i].source_ip = LawSourceIp
        /\ \A i, j \in DOMAIN timeline :
               timeline[i].destination_ip = timeline[j].destination_ip
        /\ \A i \in DOMAIN timeline : timeline[i].destination_ip \in Range(TARGET_IPS)

\* base events from 91.219.236.166, an additional artifact that is followed
\* by other malicious ip-typed ones, with noise events to the same target
C21_Witness ==
    /\ Generated
    /\ Cardinality(LawMaliciousAt) >= 2
    /\ \E i, j \in DOMAIN timeline :
           /\ IsBaseEvent(timeline[i]) /\ timeline[i].source_ip = "91.219.236.166"
           /\ IsNoiseEvent(timeline[j]) /\ timeline[j].destination_ip = "172.16.0.50"
    /\ \E i \in LawMaliciousAt : artifacts[i].value # "91.219.236.166"


\* the anchor of the timeline: two hours before the call
LawAnchor == now - 120

\* the events of the timeline that are noise
LawNoiseAt == {i \in DOMAIN timeline : timeline[i].description = "Noise event - benign activity"}

\* C22: noise events are added only for difficulty intermediate or
\* advanced.  For any other difficulty the timeline holds exactly one event
\* per base-template event; for those two it holds the base events plus
\* between 3 and 8 noise events, each with priority 1, a source_ip of the
\* benign pool, no artifact references and a timestamp t with
\* anchor <= t <= anchor + (5 * base_event_count + 30) minutes.
C22_NoiseEvents ==
    Generated =>
        LET nb == Len(TemplateOf(scenario).base_timeline)
        IN  /\ Len(timeline) = nb + Cardinality(LawNoiseAt)
            /\ IF scenario.difficulty \in {"intermediate", "advanced"}
               THEN Cardinality(LawNoiseAt) \in 3..8
               ELSE LawNoiseAt = {}
            /\ \A i \in LawNoiseAt :
                   /\ timeline[i].priority = 1
                   /\ timeline[i].source_ip
                          \in {"8.8.8.8", "1.1.1.1", "208.67.222.222", "10.0.0.1", "192.168.1.1"}
                   /\ timeline[i].artifact_ids = << >>
                   /\ timeline[i].timestamp >= LawAnchor
                   /\ timeline[i].timestamp <= LawAnchor + (5 * nb + 30)

\* eight noise events around three base events, one at the anchor and one at
\* the far end of the window
C22_Witness ==
    /\ Generated
    /\ Len(TemplateOf(scenario).base_timeline) = 3
    /\ Cardinality(LawNoiseAt) = 8
    /\ \E i, j \in LawNoiseAt :
           /\ timeline[i].timestamp = LawAnchor
           /\ timeline[j].timestamp = LawAnchor + 45


\* C23: every artifact generate_artifacts(scenario_id, template, difficulty)
\* returns, copied from the template's base list or added for the
\* difficulty, has the given scenario_id and a non-empty value, also when
\* base descriptors of the template omit fields.
C23_ArtifactOwnedAndValued ==
    (last \in {"generate_artifacts", "generate_timeline"}) =>
        \A i \in DOMAIN artifacts :
            /\ artifacts[i].scenario_id = scenario.id
            /\ artifacts[i].value # ""


\* the stored row the template of the scenario was loaded from
RowOf(scn) ==
    scenario_templates[CHOOSE i \in DOMAIN scenario_templates :
                           scenario_templates[i].id = scn.template_id]

\* the list column is missing from the row, or NULL
Lacks(row, column) == column \notin DOMAIN row \/ row[column] = None

\* C24: a template whose base timeline or base artifact list is missing or
\* null in the stored row is loaded with an empty list in its place, and
\* generate_artifacts and generate_timeline complete on it without error:
\* the artifacts are the additional ones alone, the timeline holds noise
\* events alone and is empty for beginner.
C24_MissingListsAreEmpty ==
    (scenario # NoScenario) =>
        /\ Lacks(RowOf(scenario), "base_artifacts") =>
               /\ TemplateOf(scenario).base_artifacts = << >>
               /\ "base_artifacts" \notin TemplateOf(scenario).none_fields
               /\ last # "generate_artifacts_raised"
               /\ last = "generate_artifacts" =>
                      \A i \in DOMAIN artifacts :
                          artifacts[i].metadata \in {[type |-> "benign"], [type |-> "malicious"]}
        /\ Lacks(RowOf(scenario), "base_timeline") =>
               /\ TemplateOf(scenario).base_timeline = << >>
               /\ "base_timeline" \notin TemplateOf(scenario).none_fields
               /\ last # "generate_timeline_raised"
               /\ Generated =>
                      /\ Len(timeline) = Cardinality(LawNoiseAt)
                      /\ scenario.difficulty = "beginner" => timeline = << >>

----------------------------------------------------------------------------
(* Claims about saving, checked under SaveSpec *)

\* the rows of scenario scn, its artifacts arts and its events in store st
LawStoredOf(st, scn, arts, events) ==
    [scenarios |-> st.scenarios \cap {scn},
     artifacts |-> st.artifacts \cap Range(arts),
     timeline |-> st.timeline \cap Range(events)]

\* C25: save_scenario_to_db is all-or-nothing and reports its outcome.  It
\* returns true exactly when a store is configured and no insert and not
\* the commit failed, and then the scenario row, every artifact and every
\* event are stored; when it returns false the store is as it was before
\* the call; the scenario, artifacts and events passed in are unchanged
\* either way.
C25_SaveAllOrNothing ==
    [][ (last' = "save_scenario_to_db") =>
            /\ save_call'.ok = (save_call'.db /\ save_call'.fail_at = 0)
            /\ IF save_call'.ok
               THEN /\ LawStoredOf(store', scenario, artifacts, timeline)
                           = [scenarios |-> {scenario}, artifacts |-> Range(artifacts),
                              timeline |-> Range(timeline)]
                    /\ store'.scenarios \ {scenario} = store.scenarios
               ELSE store' = store
            /\ scenario' = scenario
            /\ artifacts' = artifacts
            /\ timeline' = timeline ]_vars

\* a save of six artifacts and six events that failed at the commit, after
\* every insert, and left nothing
C25_Witness ==
    /\ last = "save_scenario_to_db"
    /\ save_call.db
    /\ save_call.fail_at = Len(artifacts) + Len(timeline) + 2
    /\ ~save_call.ok
    /\ Len(artifacts) >= 6
    /\ Len(timeline) >= 6
    /\ store = EmptyStore


----------------------------------------------------------------------------
(* Claims about the AbuseIPDB cache, checked under AbuseSpec *)

\* an entry counts as expired from its expiry instant on
LawExpired(cache_entry, clock) == cache_entry.expires_at <= clock

\* C26: after refresh_ip(ip) returned true the next get_cached_ip(ip), also
\* one made at the same clock instant, returns None; and get_cached_ip
\* returns an entry only if it is the table's entry for the ip and that
\* entry is not expired
C26_RefreshExpires ==
    [][ (reply'.op = "get_cached_ip")
            => /\ (reply.op = "refresh_ip" /\ reply.found /\ reply'.ip = reply.ip)
                      => reply'.entry = None
               /\ reply'.entry # None
                      => /\ reply'.entry \in abuseipdb_cache
                         /\ reply'.entry.ip = reply'.ip
                         /\ ~LawExpired(reply'.entry, reply'.at) ]_vars

\* C27: a check without force_refresh that met no valid entry, a failing API
\* and an expired entry for the ip answers 200 with that entry, source
\* "cache" and a warning
C27_ExpiredEntryOnApiError ==
    \A r \in abuseipdb_cache :
        (/\ reply.op = "check_ip"
         /\ ~reply.force_refresh
         /\ reply.api_failed
         /\ r.ip = reply.ip
         /\ is_expired(r, reply.at))
            => /\ reply.status = 200
               /\ reply.source = "cache"
               /\ reply.warning # ""
               /\ reply.entry = r


----------------------------------------------------------------------------
(* A claim about the values of generated artifacts, checked under Spec *)

\* the text is an IP address: parsed where the characters are listed, a
\* member of an address pool otherwise
LawIsIp(v) ==
    IF v \in Texts THEN AddressOf[v].ok
    ELSE v \in Range(MALICIOUS_IPS) \cup Range(BENIGN_IPS) \cup Range(TARGET_IPS)

\* the text is a domain name
LawIsDomain(v) ==
    IF v \in Texts THEN v # "" /\ ~AddressOf[v].ok
    ELSE v \in Range(MALICIOUS_DOMAINS)

\* the ip-typed base artifacts of the template carry IP addresses
LawIpBase(template) ==
    \A i \in DOMAIN template.base_artifacts :
        Get(template.base_artifacts[i], "type", "ip") = "ip"
            => LawIsIp(Get(template.base_artifacts[i], "value", ""))

\* C29: for a template whose ip-typed base artifacts carry IP addresses,
\* every generated artifact of type ip carries an IP address and every one
\* of type domain a domain name, and so the source_ip of every base event
\* of the timeline is an IP address, never a domain name
C29_ValueAgreesWithType ==
    (Generated /\ LawIpBase(TemplateOf(scenario))) =>
        /\ \A i \in DOMAIN artifacts :
               /\ artifacts[i].type = "ip" => LawIsIp(artifacts[i].value)
               /\ artifacts[i].type = "domain" => LawIsDomain(artifacts[i].value)
        /\ \A i \in DOMAIN timeline :
               IsBaseEvent(timeline[i]) => LawIsIp(timeline[i].source_ip)


----------------------------------------------------------------------------
(* A claim about the countries enrich_artifact reports, checked under MixedSpec *)

\* C30: in every result of enrich_artifact("ip", v) for a public address v
\* the geolocation sub-result's country_code is the host-scan sub-result's
\* country, also when one of the two is served from a cache record written
\* earlier, by this or a previous process of the service, and the other is
\* freshly generated
C30_OneCountry ==
    (Enriched("ip") /\ ~call.raised /\ LawPublic(focus.value)) =>
        call.result.enrichment.geolocation.country_code
            = call.result.enrichment.shodan.country

====
